---- MODULE Spec2Model ----
(***************************************************************************)
(* Model of the aggregation layer of the amana-marketing dashboard:        *)
(* the four server-rendered views (demographic, device, region, weekly),   *)
(* each of which fetches the campaign list, aggregates it and builds the   *)
(* data handed to the chart and table components.                          *)
(*                                                                         *)
(* Numbers are JavaScript numbers: a finite value is an exact fraction     *)
(* n/d (the rounding of IEEE doubles is not modelled), and NaN, +Infinity  *)
(* and -Infinity are values of their own.  An absent field is the value    *)
(* Undefined.  Strings are tuples of one-character strings, so that        *)
(* toLowerCase and trim are computed character by character.               *)
(***************************************************************************)
EXTENDS Integers, Sequences, FiniteSets, TLC

VARIABLES view, pc, fetched, campaigns, demo, device, region, weekly

vars == <<view, pc, fetched, campaigns, demo, device, region, weekly>>

(***************************************************************************)
(* JavaScript numbers                                                      *)
(***************************************************************************)
RECURSIVE GCD(_, _)
GCD(a, b) == IF b = 0 THEN a ELSE GCD(b, a % b)

Abs(x) == IF x < 0 THEN -x ELSE x

Frac(n, d) ==
  LET s == IF d < 0 THEN -1 ELSE 1
      g == GCD(Abs(n), Abs(d))
  IN  [k |-> "fin", n |-> (s * n) \div g, d |-> (s * d) \div g]

Num(n) == [k |-> "fin", n |-> n, d |-> 1]
NaN == [k |-> "nan", n |-> 0, d |-> 1]
PosInf == [k |-> "inf", n |-> 1, d |-> 1]
NegInf == [k |-> "inf", n |-> -1, d |-> 1]
Undefined == [k |-> "undef", n |-> 0, d |-> 1]

IsFin(a) == a.k = "fin"
IsZero(a) == a.k = "fin" /\ a.n = 0
Sign(a) == IF a.n > 0 THEN 1 ELSE IF a.n < 0 THEN -1 ELSE 0
Signed(s) == IF s > 0 THEN PosInf ELSE NegInf

\* a + b on numbers
Add(a, b) ==
  IF a.k = "nan" \/ b.k = "nan" \/ a.k = "undef" \/ b.k = "undef" THEN NaN
  ELSE IF a.k = "inf" /\ b.k = "inf" THEN (IF a.n = b.n THEN a ELSE NaN)
  ELSE IF a.k = "inf" THEN a
  ELSE IF b.k = "inf" THEN b
  ELSE Frac(a.n * b.d + b.n * a.d, a.d * b.d)

\* a * b
Mul(a, b) ==
  IF a.k = "nan" \/ b.k = "nan" \/ a.k = "undef" \/ b.k = "undef" THEN NaN
  ELSE IF a.k = "inf" \/ b.k = "inf"
       THEN (IF IsZero(a) \/ IsZero(b) THEN NaN ELSE Signed(Sign(a) * Sign(b)))
  ELSE Frac(a.n * b.n, a.d * b.d)

\* a / b
Div(a, b) ==
  IF a.k = "nan" \/ b.k = "nan" \/ a.k = "undef" \/ b.k = "undef" THEN NaN
  ELSE IF a.k = "inf" /\ b.k = "inf" THEN NaN
  ELSE IF a.k = "inf" THEN Signed(IF Sign(b) < 0 THEN -Sign(a) ELSE Sign(a))
  ELSE IF b.k = "inf" THEN Num(0)
  ELSE IF b.n = 0 THEN (IF a.n = 0 THEN NaN ELSE Signed(Sign(a)))
  ELSE Frac(a.n * b.d, a.d * b.n)

\* a > b : false as soon as one side is NaN (or undefined, which converts to NaN)
Gt(a, b) ==
  IF a.k \in {"nan", "undef"} \/ b.k \in {"nan", "undef"} THEN FALSE
  ELSE IF a.k = "inf" /\ b.k = "inf" THEN a.n > b.n
  ELSE IF a.k = "inf" THEN a.n > 0
  ELSE IF b.k = "inf" THEN b.n < 0
  ELSE a.n * b.d > b.n * a.d

\* v ?? dflt
Coalesce(v, dflt) == IF v.k = "undef" THEN dflt ELSE v

\* Number.isFinite(v)
NumberIsFinite(v) == v.k = "fin"

\* Number(v) for a value that is already a number
ToNumber(v) == IF v.k = "undef" THEN NaN ELSE v

(***************************************************************************)
(* binary64 rounding of the ratios of enrichMetrics and of the age tables. *)
(* Amounts, shares and their sums are exact fractions. A quotient that has *)
(* no exact value in a JavaScript number is rounded to 53 significant      *)
(* bits, ties to even. Such a value is kept as its bits:                   *)
(*   [k |-> "bin", n |-> sign, d |-> 1, m |-> bits, e |-> exponent]        *)
(* stands for sign * (the binary numeral m) * 2^e, m odd. A value small    *)
(* enough for a fraction n/d is kept as that fraction. Long numerals are   *)
(* worked on in digits of 12 bits (base 4096).                             *)
(***************************************************************************)
Pow2(i) ==
  <<1, 2, 4, 8, 16, 32, 64, 128, 256, 512, 1024, 2048, 4096, 8192, 16384,
    32768, 65536, 131072, 262144, 524288, 1048576, 2097152, 4194304,
    8388608, 16777216, 33554432, 67108864, 134217728, 268435456,
    536870912, 1073741824>>[i + 1]

\* the number of bits of the natural i
BitLength(i) ==
  CHOOSE len \in 0..30 : i < Pow2(len) /\ (len = 0 \/ i >= Pow2(len - 1))

BitsOfWidth(i, width) == [j \in 1..width |-> (i \div Pow2(width - j)) % 2]

BitsOfNat(i) == BitsOfWidth(i, BitLength(i))

RECURSIVE NatOfBits(_)
NatOfBits(bits) ==
  IF Len(bits) = 0 THEN 0
  ELSE IF Len(bits) = 1 THEN bits[1]
  ELSE NatOfBits(SubSeq(bits, 1, Len(bits) \div 2)) * Pow2(Len(bits) - Len(bits) \div 2)
       + NatOfBits(SubSeq(bits, Len(bits) \div 2 + 1, Len(bits)))

Zeros(i) == [j \in 1..i |-> 0]

LeadingZeros(bits) ==
  IF \A i \in 1..Len(bits) : bits[i] = 0 THEN Len(bits)
  ELSE (CHOOSE i \in 1..Len(bits) : bits[i] = 1 /\ \A j \in 1..(i - 1) : bits[j] = 0) - 1

StripLeading(bits) == SubSeq(bits, LeadingZeros(bits) + 1, Len(bits))

TrailingZeros(bits) ==
  IF \A i \in 1..Len(bits) : bits[i] = 0 THEN Len(bits)
  ELSE Len(bits)
       - (CHOOSE i \in 1..Len(bits) : bits[i] = 1 /\ \A j \in (i + 1)..Len(bits) : bits[j] = 0)

\* bits with a one at `at` and zeros after it
CarryInto(bits, at) ==
  [i \in 1..Len(bits) |-> IF i < at THEN bits[i] ELSE IF i = at THEN 1 ELSE 0]

\* bits + 1
Increment(bits) ==
  IF \A i \in 1..Len(bits) : bits[i] = 1 THEN <<1>> \o Zeros(Len(bits))
  ELSE CarryInto(bits, CHOOSE i \in 1..Len(bits) :
                         bits[i] = 0 /\ \A j \in (i + 1)..Len(bits) : bits[j] = 1)

\* the bits of a numeral in digits of 12 bits
BitsOfDigits(digits) ==
  [i \in 1..(12 * Len(digits)) |->
     (digits[(i - 1) \div 12 + 1] \div Pow2(11 - ((i - 1) % 12))) % 2]

\* the digits of a numeral whose length in bits is a multiple of 12
DigitsOfAligned(bits) ==
  [i \in 1..(Len(bits) \div 12) |-> NatOfBits(SubSeq(bits, 12 * i - 11, 12 * i))]

DigitsOfBits(bits) == DigitsOfAligned(Zeros((12 - (Len(bits) % 12)) % 12) \o bits)

DigitsOfNat(i) ==
  IF i = 0 THEN <<>>
  ELSE IF i < 4096 THEN <<i>>
  ELSE IF i < 16777216 THEN <<i \div 4096, i % 4096>>
  ELSE <<i \div 16777216, (i \div 4096) % 4096, i % 4096>>

\* digits * i + carry, for a natural i below 2^18
RECURSIVE MulDigits(_, _, _)
MulDigits(digits, i, carry) ==
  IF digits = <<>> THEN DigitsOfNat(carry)
  ELSE Append(MulDigits(SubSeq(digits, 1, Len(digits) - 1), i,
                        (digits[Len(digits)] * i + carry) \div 4096),
              (digits[Len(digits)] * i + carry) % 4096)

\* x + y + carry, for numerals of the same number of digits
RECURSIVE AddDigits(_, _, _)
AddDigits(x, y, carry) ==
  IF x = <<>> THEN DigitsOfNat(carry)
  ELSE Append(AddDigits(SubSeq(x, 1, Len(x) - 1), SubSeq(y, 1, Len(y) - 1),
                        (x[Len(x)] + y[Len(y)] + carry) \div 4096),
              (x[Len(x)] + y[Len(y)] + carry) % 4096)

\* the value m * 2^e is small enough for a fraction of the model
FitsFraction(m, e) == Len(m) <= 24 /\ e >= -24 /\ Len(m) + e <= 24

\* sign * m * 2^e with m odd: the fraction when it fits, else the bits
Odd64(sign, m, e) ==
  IF m = <<>> THEN [k |-> "fin", n |-> 0, d |-> 1]
  ELSE IF FitsFraction(m, e)
       THEN (IF e >= 0 THEN [k |-> "fin", n |-> sign * NatOfBits(m) * Pow2(e), d |-> 1]
             ELSE [k |-> "fin", n |-> sign * NatOfBits(m), d |-> Pow2(-e)])
  ELSE [k |-> "bin", n |-> sign, d |-> 1, m |-> m, e |-> e]

\* sign * bits * 2^e, trailing zeros moved into the exponent
Canon64(sign, bits, e) ==
  Odd64(sign, SubSeq(bits, 1, Len(bits) - TrailingZeros(bits)), e + TrailingZeros(bits))

\* round to nearest, ties to even: keep is the significand, rest the bits
\* after it, sticky says that the exact value has more after rest
RoundKeep(sign, keep, rest, e, sticky) ==
  IF /\ rest[1] = 1
     /\ (sticky \/ keep[Len(keep)] = 1 \/ \E i \in 2..Len(rest) : rest[i] = 1)
  THEN Canon64(sign, Increment(keep), e + Len(rest))
  ELSE Canon64(sign, keep, e + Len(rest))

\* the JavaScript number nearest to sign * sig * 2^e (sig without leading
\* zeros): 53 significant bits
Round64(sign, sig, e, sticky) ==
  IF Len(sig) <= 53 THEN Canon64(sign, sig, e)
  ELSE RoundKeep(sign, SubSeq(sig, 1, 53), SubSeq(sig, 54, Len(sig)), e, sticky)

\* `count` digits of r / den after the point, for r < den < 2^18
RECURSIVE FractionDigits(_, _, _)
FractionDigits(r, den, count) ==
  IF count = 0 THEN <<>>
  ELSE <<(r * 4096) \div den>> \o FractionDigits((r * 4096) % den, den, count - 1)

\* what is left of r / den after `count` digits
RECURSIVE FractionRest(_, _, _)
FractionRest(r, den, count) ==
  IF count = 0 \/ r = 0 THEN r ELSE FractionRest((r * 4096) % den, den, count - 1)

\* the JavaScript number nearest to num / den, for naturals num and
\* den < 2^18: at most 18 zero bits lead the fraction, so 6 digits (72 bits)
\* hold the 53 bits of the significand and the bit that decides the rounding
Quotient64(sign, num, den) ==
  Round64(sign,
          StripLeading(BitsOfNat(num \div den) \o BitsOfDigits(FractionDigits(num % den, den, 6))),
          -72, FractionRest(num % den, den, 6) # 0)

\* a / b in binary64, for sums of payload amounts a and b
Div64(a, b) ==
  IF a.k # "fin" \/ b.k # "fin" \/ b.n = 0 THEN Div(a, b)
  ELSE Quotient64(IF (a.n < 0) = (b.n < 0) THEN 1 ELSE -1,
                  Abs(a.n) * b.d, a.d * Abs(b.n))

\* a * i in binary64, for a natural i
Times64(a, i) ==
  IF a.k = "bin"
  THEN Round64(a.n, StripLeading(BitsOfDigits(MulDigits(DigitsOfBits(a.m), i, 0))), a.e, FALSE)
  ELSE IF a.k = "fin" THEN Quotient64(IF a.n < 0 THEN -1 ELSE 1, Abs(a.n) * i, a.d)
  ELSE Mul(a, Num(i))

(***************************************************************************)
(* Strings: tuples of characters; NoString is the absent string.           *)
(***************************************************************************)
NoString == <<"undefined-value">>
IsNoString(s) == s = NoString

Uppers == <<"A","B","C","D","E","F","G","H","I","J","K","L","M",
            "N","O","P","Q","R","S","T","U","V","W","X","Y","Z">>
Lowers == <<"a","b","c","d","e","f","g","h","i","j","k","l","m",
            "n","o","p","q","r","s","t","u","v","w","x","y","z">>

LowerChar(c) ==
  IF \E i \in 1..26 : Uppers[i] = c
  THEN Lowers[CHOOSE i \in 1..26 : Uppers[i] = c]
  ELSE c

\* String.prototype.toLowerCase
ToLowerCase(s) == [i \in 1..Len(s) |-> LowerChar(s[i])]

IsSpace(c) == c = " "

RECURSIVE TrimStart(_)
TrimStart(s) == IF Len(s) > 0 /\ IsSpace(s[1]) THEN TrimStart(Tail(s)) ELSE s

RECURSIVE TrimEnd(_)
TrimEnd(s) ==
  IF Len(s) > 0 /\ IsSpace(s[Len(s)]) THEN TrimEnd(SubSeq(s, 1, Len(s) - 1)) ELSE s

\* String.prototype.trim
Trim(s) == TrimEnd(TrimStart(s))

(***************************************************************************)
(* JavaScript Map: entries in insertion order.                             *)
(***************************************************************************)
MapHas(m, key) == \E i \in 1..Len(m) : m[i].key = key

MapIndex(m, key) == CHOOSE i \in 1..Len(m) : m[i].key = key

\* m.get(key) ?? dflt
MapGet(m, key, dflt) == IF MapHas(m, key) THEN m[MapIndex(m, key)].val ELSE dflt

\* m.set(key, val): an existing key keeps its place, a new one goes last
MapSet(m, key, val) ==
  IF MapHas(m, key)
  THEN [i \in 1..Len(m) |-> IF m[i].key = key THEN [key |-> key, val |-> val] ELSE m[i]]
  ELSE Append(m, [key |-> key, val |-> val])

MapKeys(m) == [i \in 1..Len(m) |-> m[i].key]
MapValues(m) == [i \in 1..Len(m) |-> m[i].val]

\* an optional list field: absent, or a list
NoList == [def |-> FALSE, items |-> <<>>]
SomeList(l) == [def |-> TRUE, items |-> l]
\* field ?? []
ListOrEmpty(f) == IF f.def THEN f.items ELSE <<>>

(***************************************************************************)
(* String literals of the source                                           *)
(***************************************************************************)
EmptyString == <<>>
STR_male == <<"m","a","l","e">>
STR_female == <<"f","e","m","a","l","e">>
STR_Unknown == <<"U","n","k","n","o","w","n">>
STR_mobile == <<"m","o","b","i","l","e">>
STR_desktop == <<"d","e","s","k","t","o","p">>
STR_Mobile == <<"M","o","b","i","l","e">>
STR_Desktop == <<"D","e","s","k","t","o","p">>
AGE_18_24 == <<"1","8","-","2","4">>
AGE_25_34 == <<"2","5","-","3","4">>
AGE_35_44 == <<"3","5","-","4","4">>
AGE_45_54 == <<"4","5","-","5","4">>
AGE_55_PLUS == <<"5","5","+">>

AGE_GROUP_ORDER == <<AGE_18_24, AGE_25_34, AGE_35_44, AGE_45_54, AGE_55_PLUS>>

(***************************************************************************)
(* Demographic view: aggregateCampaignMetrics                              *)
(***************************************************************************)
\* segment.performance, absent
NoPerformance == [def |-> FALSE, impressions |-> Undefined, clicks |-> Undefined,
                  conversions |-> Undefined]

\* segment.performance?.field ?? 0
PerfField(segment, f) ==
  IF segment.performance.def THEN Coalesce(segment.performance[f], Num(0)) ELSE Num(0)

createEmptyAgeMetrics ==
  [spend |-> Num(0), revenue |-> Num(0), impressions |-> Num(0),
   clicks |-> Num(0), conversions |-> Num(0)]

EmptyDemo ==
  [genderTotals |-> [male |-> [clicks |-> Num(0), spend |-> Num(0), revenue |-> Num(0)],
                     female |-> [clicks |-> Num(0), spend |-> Num(0), revenue |-> Num(0)]],
   ageTotals |-> <<>>,
   genderAgeTotals |-> [male |-> <<>>, female |-> <<>>],
   allocs |-> <<>>]

\* breakdowns.reduce((sum, b) => sum + (b.percentage_of_audience ?? 0), 0)
RECURSIVE SumPercentages(_, _)
SumPercentages(breakdowns, i) ==
  IF i = 0 THEN Num(0)
  ELSE Add(SumPercentages(breakdowns, i - 1),
           Coalesce(breakdowns[i].percentage_of_audience, Num(0)))

TotalPercentage(breakdowns) == SumPercentages(breakdowns, Len(breakdowns))

\* a plausible slip: the fallback decided once per campaign, from its first segment
ShareFirstSegment(segment, breakdowns, totalPercentage) ==
  IF breakdowns[1].percentage_of_audience.k # "undef" /\ Gt(totalPercentage, Num(0))
  THEN Div(Coalesce(segment.percentage_of_audience, Num(0)), totalPercentage)
  ELSE Div(Num(1), Num(Len(breakdowns)))

\* a plausible slip: the percentages ignored, every segment an equal part
ShareUniform(segment, breakdowns, totalPercentage) ==
  Div(Num(1), Num(Len(breakdowns)))

\* the share of one segment
Share(segment, breakdowns, totalPercentage) ==
  IF segment.percentage_of_audience.k # "undef" /\ Gt(totalPercentage, Num(0))
  THEN Div(segment.percentage_of_audience, totalPercentage)
  ELSE Div(Num(1), Num(Len(breakdowns)))

\* a plausible slip: the gender compared as written
GenderKeyVerbatim(segment) ==
  IF IsNoString(segment.gender) THEN EmptyString ELSE segment.gender

\* (segment.gender ?? '').toLowerCase()
GenderKey(segment) ==
  ToLowerCase(IF IsNoString(segment.gender) THEN EmptyString ELSE segment.gender)

\* a plausible slip: the age group normalized like a device or region key
AgeGroupNormalized(segment) ==
  IF IsNoString(segment.age_group) THEN STR_Unknown
  ELSE ToLowerCase(Trim(segment.age_group))

\* segment.age_group ?? 'Unknown'
AgeGroupOf(segment) ==
  IF IsNoString(segment.age_group) THEN STR_Unknown ELSE segment.age_group

\* a plausible slip: the spend of an age group left as it was
AddMetricsSpendKept(cur, spendShare, revenueShare, impressions, clicks, conversions) ==
  [spend |-> cur.spend,
   revenue |-> Add(cur.revenue, revenueShare),
   impressions |-> Add(cur.impressions, impressions),
   clicks |-> Add(cur.clicks, clicks),
   conversions |-> Add(cur.conversions, conversions)]

\* a plausible slip: the metrics of an age group assigned instead of added
AddMetricsLastWins(cur, spendShare, revenueShare, impressions, clicks, conversions) ==
  [spend |-> spendShare, revenue |-> revenueShare, impressions |-> impressions,
   clicks |-> clicks, conversions |-> conversions]

AddMetrics(cur, spendShare, revenueShare, impressions, clicks, conversions) ==
  [spend |-> Add(cur.spend, spendShare),
   revenue |-> Add(cur.revenue, revenueShare),
   impressions |-> Add(cur.impressions, impressions),
   clicks |-> Add(cur.clicks, clicks),
   conversions |-> Add(cur.conversions, conversions)]

\* the body of breakdowns.forEach((segment) => ...)
ProcessSegment(acc, spend, revenue, breakdowns, totalPercentage, segment) ==
  LET share == Share(segment, breakdowns, totalPercentage)
      impressions == PerfField(segment, "impressions")
      clicks == PerfField(segment, "clicks")
      conversions == PerfField(segment, "conversions")
      spendShare == Mul(spend, share)
      revenueShare == Mul(revenue, share)
      genderKey == GenderKey(segment)
      ageGroup == AgeGroupOf(segment)
      ageTotals == MapSet(acc.ageTotals, ageGroup,
                     AddMetrics(MapGet(acc.ageTotals, ageGroup, createEmptyAgeMetrics),
                                spendShare, revenueShare, impressions, clicks, conversions))
      g == IF genderKey = STR_male THEN "male" ELSE "female"
      gt == acc.genderTotals[g]
      alloc == [share |-> share, spendShare |-> spendShare, revenueShare |-> revenueShare]
      allocs == [acc.allocs EXCEPT ![Len(acc.allocs)] = Append(@, alloc)]
  IN  IF genderKey = STR_male \/ genderKey = STR_female
      THEN [genderTotals |-> [acc.genderTotals EXCEPT ![g] =
                                [clicks |-> Add(gt.clicks, clicks),
                                 spend |-> Add(gt.spend, spendShare),
                                 revenue |-> Add(gt.revenue, revenueShare)]],
            ageTotals |-> ageTotals,
            genderAgeTotals |-> [acc.genderAgeTotals EXCEPT ![g] =
                                   MapSet(@, ageGroup,
                                     AddMetrics(MapGet(@, ageGroup, createEmptyAgeMetrics),
                                                spendShare, revenueShare,
                                                impressions, clicks, conversions))],
            allocs |-> allocs]
      ELSE [acc EXCEPT !.ageTotals = ageTotals, !.allocs = allocs]

RECURSIVE ForEachSegment(_, _, _, _, _, _)
ForEachSegment(acc, spend, revenue, breakdowns, totalPercentage, i) ==
  IF i = 0 THEN acc
  ELSE ProcessSegment(
         ForEachSegment(acc, spend, revenue, breakdowns, totalPercentage, i - 1),
         spend, revenue, breakdowns, totalPercentage, breakdowns[i])

\* the body of campaigns.forEach((campaign) => ...)
ProcessCampaign(acc, campaign) ==
  LET breakdowns == ListOrEmpty(campaign.demographic_breakdown)
      started == [acc EXCEPT !.allocs = Append(@, <<>>)]
  IN  IF Len(breakdowns) = 0 THEN started
      ELSE ForEachSegment(started, Coalesce(campaign.spend, Num(0)),
                          Coalesce(campaign.revenue, Num(0)),
                          breakdowns, TotalPercentage(breakdowns), Len(breakdowns))

RECURSIVE ForEachCampaign(_, _)
ForEachCampaign(list, i) ==
  IF i = 0 THEN EmptyDemo ELSE ProcessCampaign(ForEachCampaign(list, i - 1), list[i])

aggregateCampaignMetrics(list) == ForEachCampaign(list, Len(list))

(***************************************************************************)
(* Device view: aggregateDevicePerformance, enrichMetrics                  *)
(***************************************************************************)
DEVICE_ORDER == <<"mobile", "desktop">>

DEVICE_LABELS == [mobile |-> STR_Mobile, desktop |-> STR_Desktop]

\* Number(v ?? 0), kept only when Number.isFinite
FiniteOrZero(v) ==
  LET x == ToNumber(Coalesce(v, Num(0))) IN IF NumberIsFinite(x) THEN x ELSE Num(0)

EmptyDeviceAggregate(key) ==
  [device |-> DEVICE_LABELS[key], impressions |-> Num(0), clicks |-> Num(0),
   conversions |-> Num(0), spend |-> Num(0), revenue |-> Num(0)]

\* a plausible slip: the label compared without lowercasing
DeviceKeyVerbatim(deviceStat) == deviceStat.device

\* deviceStat.device?.toLowerCase()
DeviceKey(deviceStat) ==
  IF IsNoString(deviceStat.device) THEN NoString ELSE ToLowerCase(deviceStat.device)

\* the body of devicePerformance.forEach((deviceStat) => ...)
ProcessDeviceStat(totals, deviceStat) ==
  LET key == DeviceKey(deviceStat)
      k == IF key = STR_mobile THEN "mobile" ELSE "desktop"
      existing == MapGet(totals, k, EmptyDeviceAggregate(k))
  IN  IF key # STR_mobile /\ key # STR_desktop THEN totals
      ELSE MapSet(totals, k,
             [device |-> existing.device,
              impressions |-> Add(existing.impressions, FiniteOrZero(deviceStat.impressions)),
              clicks |-> Add(existing.clicks, FiniteOrZero(deviceStat.clicks)),
              conversions |-> Add(existing.conversions, FiniteOrZero(deviceStat.conversions)),
              spend |-> Add(existing.spend, FiniteOrZero(deviceStat.spend)),
              revenue |-> Add(existing.revenue, FiniteOrZero(deviceStat.revenue))])

RECURSIVE ForEachDeviceStat(_, _, _)
ForEachDeviceStat(totals, stats, i) ==
  IF i = 0 THEN totals
  ELSE ProcessDeviceStat(ForEachDeviceStat(totals, stats, i - 1), stats[i])

RECURSIVE ForEachDeviceCampaign(_, _)
ForEachDeviceCampaign(list, i) ==
  IF i = 0 THEN <<>>
  ELSE LET stats == ListOrEmpty(list[i].device_performance)
       IN  ForEachDeviceStat(ForEachDeviceCampaign(list, i - 1), stats, Len(stats))

aggregateDevicePerformance(list) == ForEachDeviceCampaign(list, Len(list))

\* the absent value of roas
Null == [k |-> "null", n |-> 0, d |-> 1]

\* Array.from(totals.values()).reduce((sum, item) => sum + item.clicks, 0)
RECURSIVE SumClicks(_, _)
SumClicks(totals, i) ==
  IF i = 0 THEN Num(0) ELSE Add(SumClicks(totals, i - 1), totals[i].val.clicks)

\* a plausible slip: roas 0 instead of the absent value
RoasZero(aggregate) ==
  IF Gt(aggregate.spend, Num(0)) THEN Div64(aggregate.revenue, aggregate.spend) ELSE Num(0)

Ctr(aggregate) ==
  IF Gt(aggregate.impressions, Num(0))
  THEN Times64(Div64(aggregate.clicks, aggregate.impressions), 100) ELSE Num(0)

ConversionRate(aggregate) ==
  IF Gt(aggregate.clicks, Num(0))
  THEN Times64(Div64(aggregate.conversions, aggregate.clicks), 100) ELSE Num(0)

Roas(aggregate) ==
  IF Gt(aggregate.spend, Num(0)) THEN Div64(aggregate.revenue, aggregate.spend) ELSE Null

TrafficShare(aggregate, totalClicks) ==
  IF Gt(totalClicks, Num(0))
  THEN Times64(Div64(aggregate.clicks, totalClicks), 100) ELSE Num(0)

enrichMetrics(totals) ==
  LET totalClicks == SumClicks(totals, Len(totals))
  IN  [key \in {"mobile", "desktop"} |->
         LET aggregate == MapGet(totals, key, EmptyDeviceAggregate(key))
         IN  [device |-> aggregate.device,
              impressions |-> aggregate.impressions,
              clicks |-> aggregate.clicks,
              conversions |-> aggregate.conversions,
              spend |-> aggregate.spend,
              revenue |-> aggregate.revenue,
              ctr |-> Ctr(aggregate),
              conversionRate |-> ConversionRate(aggregate),
              roas |-> Roas(aggregate),
              trafficShare |-> TrafficShare(aggregate, totalClicks)]]

(***************************************************************************)
(* Region view: REGION_COORDINATES, resolveCoordinates,                    *)
(* aggregateRegionalPerformance                                            *)
(***************************************************************************)
\* latitudes and longitudes in 1/10000 of a degree
REGION_COORDINATES == <<
    [key |-> <<"a","b","u"," ","d","h","a","b","i">>, lat |-> 244539, lon |-> 543773],
    [key |-> <<"a","l"," ","a","i","n">>, lat |-> 241302, lon |-> 558023],
    [key |-> <<"a","l"," ","k","h","o","b","a","r">>, lat |-> 262172, lon |-> 501971],
    [key |-> <<"d","a","m","m","a","m">>, lat |-> 264207, lon |-> 500880],
    [key |-> <<"d","o","h","a">>, lat |-> 252854, lon |-> 515310],
    [key |-> <<"d","u","b","a","i">>, lat |-> 252048, lon |-> 552708],
    [key |-> <<"f","u","j","a","i","r","a","h">>, lat |-> 251288, lon |-> 563265],
    [key |-> <<"j","e","d","d","a","h">>, lat |-> 214858, lon |-> 391925],
    [key |-> <<"k","u","w","a","i","t"," ","c","i","t","y">>, lat |-> 293786, lon |-> 479903],
    [key |-> <<"m","a","n","a","m","a">>, lat |-> 262235, lon |-> 505876],
    [key |-> <<"m","u","s","c","a","t">>, lat |-> 235880, lon |-> 583829],
    [key |-> <<"r","a","s"," ","a","l"," ","k","h","a","i","m","a","h">>, lat |-> 258007, lon |-> 559762],
    [key |-> <<"r","i","y","a","d","h">>, lat |-> 247136, lon |-> 466753],
    [key |-> <<"s","h","a","r","j","a","h">>, lat |-> 253463, lon |-> 554211],
    [key |-> <<"s","h","u","w","a","i","k","h">>, lat |-> 293499, lon |-> 479647],
    [key |-> <<"a","j","m","a","n">>, lat |-> 254052, lon |-> 555136],
    [key |-> <<"b","a","h","r","a","i","n">>, lat |-> 260667, lon |-> 505577]
>>

\* Property names every object literal inherits from Object.prototype that
\* are written in lower case only, so that a lowercased key can hit them.
\* REGION_COORDINATES[key] yields a function or an object for them.
InheritedKeys == { <<"c","o","n","s","t","r","u","c","t","o","r">>,
                   <<"_","_","p","r","o","t","o","_","_">> }

normalizeKey(value) == ToLowerCase(Trim(value))

NoCoordinates == [found |-> FALSE, lat |-> Undefined, lon |-> Undefined]

HasOwnKey(key) == \E i \in 1..Len(REGION_COORDINATES) : REGION_COORDINATES[i].key = key

OwnEntry(key) ==
  REGION_COORDINATES[CHOOSE i \in 1..Len(REGION_COORDINATES) :
                       REGION_COORDINATES[i].key = key]

CoordinatesOf(e) ==
  [found |-> TRUE, lat |-> Frac(e.lat, 10000), lon |-> Frac(e.lon, 10000)]

\* REGION_COORDINATES[key] ?? null
LookupCoordinates(key) ==
  IF HasOwnKey(key) THEN CoordinatesOf(OwnEntry(key))
  ELSE IF key \in InheritedKeys
  THEN [found |-> TRUE, lat |-> Undefined, lon |-> Undefined]
  ELSE NoCoordinates

\* resolveCoordinates(region), for a region that is a string
resolveCoordinates(regionName) == LookupCoordinates(normalizeKey(regionName))

Neg(a) == [a EXCEPT !.n = -a.n]
Sub(a, b) == Add(a, Neg(b))

\* how Array.prototype.sort reads a comparator's result: NaN counts as 0
CmpSign(v) == IF v.k \in {"nan", "undef"} THEN 0 ELSE Sign(v)

EmptyRegionResult == [threw |-> FALSE, totals |-> <<>>, missingRegions |-> <<>>]

NewRegionAggregate(regionStat, coordinates) ==
  [region |-> regionStat.region, country |-> regionStat.country,
   latitude |-> coordinates.lat, longitude |-> coordinates.lon,
   spend |-> Num(0), revenue |-> Num(0)]

\* a plausible slip: the aggregate relabelled by every entry it accumulates
AccumulateRegionLastSeen(totals, key, existing, regionStat) ==
  MapSet(totals, key,
    [existing EXCEPT !.region = regionStat.region,
                     !.country = regionStat.country,
                     !.spend = Add(@, FiniteOrZero(regionStat.spend)),
                     !.revenue = Add(@, FiniteOrZero(regionStat.revenue))])

\* existing.spend += ...; existing.revenue += ...; totals.set(key, existing)
AccumulateRegion(totals, key, existing, regionStat) ==
  MapSet(totals, key,
    [existing EXCEPT !.spend = Add(@, FiniteOrZero(regionStat.spend)),
                     !.revenue = Add(@, FiniteOrZero(regionStat.revenue))])

\* missingRegions.add(region)
SetAdd(l, x) == IF \E i \in 1..Len(l) : l[i] = x THEN l ELSE Append(l, x)

\* the body of regionalPerformance.forEach, once the coordinates are resolved
RegionStatResolved(acc, regionStat, coordinates, key) ==
  IF ~coordinates.found
  THEN [acc EXCEPT !.missingRegions = SetAdd(acc.missingRegions, regionStat.region)]
  ELSE [acc EXCEPT !.totals =
          AccumulateRegion(acc.totals, key,
            MapGet(acc.totals, key, NewRegionAggregate(regionStat, coordinates)),
            regionStat)]

\* the body of regionalPerformance.forEach((regionStat) => ...);
\* regionStat.region.trim() raises a TypeError when region is absent
ProcessRegionStat(acc, regionStat) ==
  IF IsNoString(regionStat.region) THEN [acc EXCEPT !.threw = TRUE]
  ELSE RegionStatResolved(acc, regionStat, resolveCoordinates(regionStat.region),
                          normalizeKey(regionStat.region))

\* one iteration, unless an earlier one raised
RegionStatStep(before, regionStat) ==
  IF before.threw THEN before ELSE ProcessRegionStat(before, regionStat)

RECURSIVE ForEachRegionStat(_, _, _)
ForEachRegionStat(acc, stats, i) ==
  IF i = 0 THEN acc
  ELSE RegionStatStep(ForEachRegionStat(acc, stats, i - 1), stats[i])

RegionCampaignStep(before, campaign) ==
  IF before.threw THEN before
  ELSE ForEachRegionStat(before, ListOrEmpty(campaign.regional_performance),
                         Len(ListOrEmpty(campaign.regional_performance)))

RECURSIVE ForEachRegionCampaign(_, _)
ForEachRegionCampaign(list, i) ==
  IF i = 0 THEN EmptyRegionResult
  ELSE RegionCampaignStep(ForEachRegionCampaign(list, i - 1), list[i])

\* where a stable sort puts x in the sorted list l: after the last element
\* that the comparator does not place after x
RegionInsert(l, x) ==
  LET ok == {j \in 1..Len(l) : CmpSign(Sub(x.revenue, l[j].revenue)) <= 0}
      p == IF ok = {} THEN 0 ELSE CHOOSE j \in ok : \A q \in ok : q <= j
  IN  SubSeq(l, 1, p) \o <<x>> \o SubSeq(l, p + 1, Len(l))

\* a plausible slip: the aggregates returned in insertion order
InsertionOrder(l, i) == SubSeq(l, 1, i)

\* .sort((a, b) => b.revenue - a.revenue)
RECURSIVE SortByRevenueDesc(_, _)
SortByRevenueDesc(l, i) ==
  IF i = 0 THEN <<>> ELSE RegionInsert(SortByRevenueDesc(l, i - 1), l[i])

RegionResult(r) ==
  IF r.threw THEN [threw |-> TRUE, value |-> <<>>, missingRegions |-> <<>>]
  ELSE [threw |-> FALSE,
        value |-> SortByRevenueDesc(MapValues(r.totals), Len(r.totals)),
        missingRegions |-> r.missingRegions]

\* the value returned, or threw = TRUE when the call raised
aggregateRegionalPerformance(list) == RegionResult(ForEachRegionCampaign(list, Len(list)))

\* regionAggregates.filter((region) => region[metric] > 0).map(...)
MapPoint(points, r, metric) ==
  IF Gt(r[metric], Num(0))
  THEN Append(points, [label |-> r.region, subtitle |-> r.country,
                       latitude |-> r.latitude, longitude |-> r.longitude,
                       value |-> r[metric]])
  ELSE points

RECURSIVE MapPoints(_, _, _)
MapPoints(aggregates, metric, i) ==
  IF i = 0 THEN <<>>
  ELSE MapPoint(MapPoints(aggregates, metric, i - 1), aggregates[i], metric)

(***************************************************************************)
(* Weekly view: aggregateWeeklyPerformance                                 *)
(***************************************************************************)
STR_undefined == <<"u","n","d","e","f","i","n","e","d">>

\* `${value}` in a template literal
TemplateString(sv) == IF IsNoString(sv) THEN STR_undefined ELSE sv

Digits == <<"0","1","2","3","4","5","6","7","8","9">>
IsDigit(c) == \E i \in 1..10 : Digits[i] = c
DigitValue(c) == (CHOOSE i \in 1..10 : Digits[i] = c) - 1

IsLeapYear(y) == (y % 4 = 0 /\ y % 100 # 0) \/ y % 400 = 0

DaysInMonth(y, m) ==
  IF m = 2 THEN (IF IsLeapYear(y) THEN 29 ELSE 28)
  ELSE IF m \in {4, 6, 9, 11} THEN 30 ELSE 31

\* days from 1970-01-01 to the civil date y-m-d
DaysFromCivil(y, m, d) ==
  LET yy == IF m <= 2 THEN y - 1 ELSE y
      era == yy \div 400
      yoe == yy - era * 400
      mp == IF m > 2 THEN m - 3 ELSE m + 9
      doy == (153 * mp + 2) \div 5 + d - 1
      doe == yoe * 365 + yoe \div 4 - yoe \div 100 + doy
  IN  era * 146097 + doe - 719468

\* new Date(sv).getTime() for the date-only ISO form YYYY-MM-DD, counted in
\* whole days (a date-only form is midnight UTC, a multiple of 86400000 ms);
\* any other string, and the absent value, give NaN
DateGetTime(sv) ==
  IF /\ Len(sv) = 10
     /\ \A i \in {1, 2, 3, 4, 6, 7, 9, 10} : IsDigit(sv[i])
     /\ sv[5] = "-" /\ sv[8] = "-"
  THEN LET y == 1000 * DigitValue(sv[1]) + 100 * DigitValue(sv[2])
                + 10 * DigitValue(sv[3]) + DigitValue(sv[4])
           m == 10 * DigitValue(sv[6]) + DigitValue(sv[7])
           d == 10 * DigitValue(sv[9]) + DigitValue(sv[10])
       IN  IF m \in 1..12 /\ d >= 1 /\ d <= DaysInMonth(y, m)
           THEN Num(DaysFromCivil(y, m, d))
           ELSE NaN
  ELSE NaN

\* `${week.week_start}_${week.week_end}`
WeekKey(week) == TemplateString(week.week_start) \o <<"_">> \o TemplateString(week.week_end)

\* the body of weeklyPerformance.forEach((week) => ...)
ProcessWeek(totals, week) ==
  LET key == WeekKey(week)
      existing == MapGet(totals, key,
                    [weekStart |-> week.week_start, weekEnd |-> week.week_end,
                     spend |-> Num(0), revenue |-> Num(0)])
  IN  MapSet(totals, key,
        [existing EXCEPT !.spend = Add(@, FiniteOrZero(week.spend)),
                         !.revenue = Add(@, FiniteOrZero(week.revenue))])

RECURSIVE ForEachWeek(_, _, _)
ForEachWeek(totals, weeks, i) ==
  IF i = 0 THEN totals ELSE ProcessWeek(ForEachWeek(totals, weeks, i - 1), weeks[i])

RECURSIVE ForEachWeekCampaign(_, _)
ForEachWeekCampaign(list, i) ==
  IF i = 0 THEN <<>>
  ELSE LET weeks == ListOrEmpty(list[i].weekly_performance)
       IN  ForEachWeek(ForEachWeekCampaign(list, i - 1), weeks, Len(weeks))

WeekInsert(l, x) ==
  LET ok == {j \in 1..Len(l) :
               CmpSign(Sub(DateGetTime(l[j].weekStart), DateGetTime(x.weekStart))) <= 0}
      p == IF ok = {} THEN 0 ELSE CHOOSE j \in ok : \A q \in ok : q <= j
  IN  SubSeq(l, 1, p) \o <<x>> \o SubSeq(l, p + 1, Len(l))

\* .sort((a, b) => new Date(a.weekStart).getTime() - new Date(b.weekStart).getTime())
RECURSIVE SortByWeekStart(_, _)
SortByWeekStart(l, i) ==
  IF i = 0 THEN <<>> ELSE WeekInsert(SortByWeekStart(l, i - 1), l[i])

aggregateWeeklyPerformance(list) ==
  LET totals == ForEachWeekCampaign(list, Len(list))
  IN  SortByWeekStart(MapValues(totals), Len(totals))

(***************************************************************************)
(* Demographic view: presentation adapters                                 *)
(***************************************************************************)
\* the characters the model's strings use, in UTF-16 code unit order
CharOrder == <<" ", "+", "-", "/", "0","1","2","3","4","5","6","7","8","9",
               "A","B","C","D","E","F","G","H","I","J","K","L","M",
               "N","O","P","Q","R","S","T","U","V","W","X","Y","Z", "_",
               "a","b","c","d","e","f","g","h","i","j","k","l","m",
               "n","o","p","q","r","s","t","u","v","w","x","y","z">>

CharCode(c) == CHOOSE i \in 1..Len(CharOrder) : CharOrder[i] = c

\* a < b as strings
RECURSIVE StringLess(_, _)
StringLess(a, b) ==
  IF Len(b) = 0 THEN FALSE
  ELSE IF Len(a) = 0 THEN TRUE
  ELSE IF a[1] = b[1] THEN StringLess(Tail(a), Tail(b))
  ELSE CharCode(a[1]) < CharCode(b[1])

StringInsert(l, x) ==
  LET ok == {j \in 1..Len(l) : ~StringLess(x, l[j])}
      p == IF ok = {} THEN 0 ELSE CHOOSE j \in ok : \A q \in ok : q <= j
  IN  SubSeq(l, 1, p) \o <<x>> \o SubSeq(l, p + 1, Len(l))

\* a plausible slip: the other labels left in the order observed
UnsortedStrings(l, i) == SubSeq(l, 1, i)

\* Array.prototype.sort() without a comparator, on strings
RECURSIVE SortStrings(_, _)
SortStrings(l, i) ==
  IF i = 0 THEN <<>> ELSE StringInsert(SortStrings(l, i - 1), l[i])

Includes(l, x) == \E i \in 1..Len(l) : l[i] = x

\* l.filter((x) => !excluded.includes(x))
RECURSIVE FilterNotIn(_, _, _)
FilterNotIn(l, excluded, i) ==
  IF i = 0 THEN <<>>
  ELSE IF Includes(excluded, l[i]) THEN FilterNotIn(l, excluded, i - 1)
  ELSE Append(FilterNotIn(l, excluded, i - 1), l[i])

buildOrderedAgeGroups(ageTotals) ==
  LET additional == FilterNotIn(MapKeys(ageTotals), AGE_GROUP_ORDER, Len(ageTotals))
  IN  AGE_GROUP_ORDER \o SortStrings(additional, Len(additional))

\* value <= 0
LessOrEqualZero(value) == (value.k = "fin" /\ value.n <= 0) \/ value = NegInf

\* ageTotals.get(label)?.[metricKey] ?? 0
AgeSeriesValue(ageTotals, label, metricKey) ==
  IF MapHas(ageTotals, label) THEN MapGet(ageTotals, label, createEmptyAgeMetrics)[metricKey]
  ELSE Num(0)

\* the body of orderedAgeGroups.flatMap((label) => ...)
AgeSeriesPoint(points, label, value) ==
  IF LessOrEqualZero(value) THEN points
  ELSE Append(points, [label |-> label, value |-> value])

RECURSIVE buildAgeSeries(_, _, _, _)
buildAgeSeries(ageTotals, orderedAgeGroups, metricKey, i) ==
  IF i = 0 THEN <<>>
  ELSE AgeSeriesPoint(buildAgeSeries(ageTotals, orderedAgeGroups, metricKey, i - 1),
                      orderedAgeGroups[i],
                      AgeSeriesValue(ageTotals, orderedAgeGroups[i], metricKey))

\* floor of the fraction n/d, d > 0
FloorDiv(n, d) == IF n >= 0 THEN n \div d ELSE -((-n + d - 1) \div d)

\* Math.round: the nearest integer, halves upward; NaN and the infinities unchanged
MathRound(v) == IF v.k = "fin" THEN Num(FloorDiv(2 * v.n + v.d, 2 * v.d)) ELSE v

RowCtr(totals) ==
  IF Gt(totals.impressions, Num(0))
  THEN Times64(Div64(totals.clicks, totals.impressions), 100) ELSE Num(0)

RowConversionRate(totals) ==
  IF Gt(totals.clicks, Num(0))
  THEN Times64(Div64(totals.conversions, totals.clicks), 100) ELSE Num(0)

\* a plausible slip: the rows without activity emitted too
TableRowKeepIdle(rows, genderAgeMap, ageGroup) ==
  LET totals == MapGet(genderAgeMap, ageGroup, createEmptyAgeMetrics)
  IN  IF ~MapHas(genderAgeMap, ageGroup) THEN rows
      ELSE Append(rows, [ageGroup |-> ageGroup,
                         impressions |-> MathRound(totals.impressions),
                         clicks |-> MathRound(totals.clicks),
                         conversions |-> MathRound(totals.conversions),
                         ctr |-> RowCtr(totals),
                         conversionRate |-> RowConversionRate(totals)])

\* the body of orderedWithExtras.forEach((ageGroup) => ...)
TableRow(rows, genderAgeMap, ageGroup) ==
  LET totals == MapGet(genderAgeMap, ageGroup, createEmptyAgeMetrics)
      hasActivity == \/ Gt(totals.impressions, Num(0))
                     \/ Gt(totals.clicks, Num(0))
                     \/ Gt(totals.conversions, Num(0))
  IN  IF ~MapHas(genderAgeMap, ageGroup) \/ ~hasActivity THEN rows
      ELSE Append(rows, [ageGroup |-> ageGroup,
                         impressions |-> MathRound(totals.impressions),
                         clicks |-> MathRound(totals.clicks),
                         conversions |-> MathRound(totals.conversions),
                         ctr |-> RowCtr(totals),
                         conversionRate |-> RowConversionRate(totals)])

RECURSIVE ForEachAgeGroup(_, _, _)
ForEachAgeGroup(genderAgeMap, ordered, i) ==
  IF i = 0 THEN <<>>
  ELSE TableRow(ForEachAgeGroup(genderAgeMap, ordered, i - 1), genderAgeMap, ordered[i])

\* a plausible slip: the rows in the order the map was filled
TableDataAsInserted(genderAgeMap, orderedAgeGroups) ==
  ForEachAgeGroup(genderAgeMap, MapKeys(genderAgeMap), Len(genderAgeMap))

buildGenderAgeTableData(genderAgeMap, orderedAgeGroups) ==
  LET orderedWithExtras ==
        orderedAgeGroups \o FilterNotIn(MapKeys(genderAgeMap), orderedAgeGroups,
                                        Len(genderAgeMap))
  IN  ForEachAgeGroup(genderAgeMap, orderedWithExtras, Len(orderedWithExtras))

(***************************************************************************)
(* The payloads the endpoint may serve                                     *)
(***************************************************************************)
\* the most entries (segments, device, regional or weekly records; a campaign
\* without any counts as one) a served campaign list holds
MaxEntries == 2

Str_Male == <<"M","a","l","e">>
Str_Female == <<"F","e","m","a","l","e">>
Str_other == <<"o","t","h","e","r">>

Perf(i, c, v) == [def |-> TRUE, impressions |-> i, clicks |-> c, conversions |-> v]

Seg(age, gender, pct, perf) ==
  [age_group |-> age, gender |-> gender, percentage_of_audience |-> pct,
   performance |-> perf]

SegmentSet ==
  { Seg(AGE_18_24, STR_male, Num(3), Perf(Num(4), Num(2), Num(1))),
    Seg(AGE_25_34, Str_Female, Num(1), Perf(Num(2), Num(0), Num(1))),
    Seg(NoString, Str_other, Undefined, NoPerformance),
    Seg(AGE_18_24, NoString, Num(0), Perf(Num(3), Num(1), Num(1))),
    Seg(AGE_18_24, Str_Male, Undefined, Perf(Undefined, Num(1), Num(1))) }

\* campaign-level (spend, revenue)
MoneySet ==
  { <<Num(12), Num(24)>>, <<Undefined, Undefined>>, <<PosInf, NaN>> }

Camp(money, segs, devs, regs, weeks) ==
  [spend |-> money[1], revenue |-> money[2], demographic_breakdown |-> segs,
   device_performance |-> devs, regional_performance |-> regs,
   weekly_performance |-> weeks]

\* the two campaigns of the worked example
CampaignA ==
  Camp(<<Num(100), Undefined>>,
       SomeList(<<Seg(AGE_18_24, STR_male, Num(60), Perf(Num(1000), Num(50), Num(5))),
                  Seg(AGE_25_34, STR_female, Num(40), Perf(Num(800), Num(40), Num(2)))>>),
       NoList, NoList, NoList)

CampaignB ==
  Camp(<<Num(50), Undefined>>,
       SomeList(<<Seg(AGE_18_24, STR_male, Undefined, Perf(Num(500), Num(10), Num(1)))>>),
       NoList, NoList, NoList)

Scenario == <<CampaignA, CampaignB>>

Dev(d, i, c, v, s, r) ==
  [device |-> d, impressions |-> i, clicks |-> c, conversions |-> v,
   spend |-> s, revenue |-> r]

DeviceStatSet ==
  { Dev(STR_mobile, Num(4), Num(2), Num(1), Num(6), Num(12)),
    Dev(STR_Desktop, Num(10), Num(2), Num(1), Num(3), Num(0)),
    Dev(<<"t","a","b","l","e","t">>, Num(5), Num(5), Num(5), Num(5), Num(5)),
    Dev(NoString, Num(1), Num(1), Num(1), Num(1), Num(1)),
    Dev(<<"M","O","B","I","L","E">>, Undefined, NaN, PosInf, Undefined, NegInf),
    Dev(STR_desktop, Num(0), Num(0), Num(0), Num(-2), Num(5)) }

Reg(r, c, s, v) == [region |-> r, country |-> c, spend |-> s, revenue |-> v]

Str_UAE == <<"U","A","E">>
Str_Qatar == <<"Q","a","t","a","r">>

RegionStatSet ==
  { Reg(<<"D","u","b","a","i">>, Str_UAE, Num(5), Num(10)),
    Reg(<<" ","d","u","b","a","i"," ">>, <<"A","E">>, Num(1), Num(20)),
    Reg(<<"A","t","l","a","n","t","i","s">>, NoString, Num(7), Num(7)),
    Reg(<<"D","o","h","a">>, Str_Qatar, Num(2), Num(15)),
    Reg(NoString, Str_UAE, Num(1), Num(1)),
    Reg(<<"C","o","n","s","t","r","u","c","t","o","r">>, NoString, Num(4), Num(8)),
    Reg(<<"d","o","h","a">>, Str_Qatar, NaN, PosInf) }

Week(ws, we, s, r) == [week_start |-> ws, week_end |-> we, spend |-> s, revenue |-> r]

Date_0101 == <<"2","0","2","4","-","0","1","-","0","1">>
Date_0107 == <<"2","0","2","4","-","0","1","-","0","7">>
Date_0108 == <<"2","0","2","4","-","0","1","-","0","8">>
Date_0114 == <<"2","0","2","4","-","0","1","-","1","4">>

WeekSet ==
  { Week(Date_0108, Date_0114, Num(5), Num(10)),
    Week(Date_0101, Date_0107, Num(3), Num(6)),
    Week(Date_0108, Date_0114, Num(1), NaN),
    Week(NoString, Date_0107, Undefined, PosInf) }

NoMoney == <<Undefined, Undefined>>

\* the campaigns of a view's payload that hold exactly the list l
CampaignsWith(v, l) ==
  IF v = "demographic" THEN {Camp(m, l, NoList, NoList, NoList) : m \in MoneySet}
  ELSE IF v = "device" THEN {Camp(NoMoney, NoList, l, NoList, NoList)}
  ELSE IF v = "region" THEN {Camp(NoMoney, NoList, NoList, l, NoList)}
  ELSE {Camp(NoMoney, NoList, NoList, NoList, l)}

EntrySet(v) ==
  IF v = "demographic" THEN SegmentSet
  ELSE IF v = "device" THEN DeviceStatSet
  ELSE IF v = "region" THEN RegionStatSet
  ELSE WeekSet

\* the campaigns that count as k entries
CampaignsOfCost(v, k) ==
  UNION { CampaignsWith(v, l) :
            l \in (IF k = 1 THEN {NoList, SomeList(<<>>)} ELSE {})
                  \cup {SomeList(e) : e \in [1..k -> EntrySet(v)]} }

RECURSIVE ListsOfCost(_, _)
ListsOfCost(v, n) ==
  IF n = 0 THEN {<<>>}
  ELSE UNION { { <<c>> \o rest : c \in CampaignsOfCost(v, k),
                                 rest \in ListsOfCost(v, n - k) } : k \in 1..n }

Views == {"demographic", "device", "region", "weekly"}

AGE_Teen == <<"T","e","e","n">>

\* the age groups 55+, 18-24 and Teen, observed in that order
AgeExample ==
  <<Camp(<<Num(12), Num(24)>>,
         SomeList(<<Seg(AGE_55_PLUS, STR_male, Num(1), Perf(Num(4), Num(2), Num(1))),
                    Seg(AGE_18_24, STR_female, Num(1), Perf(Num(2), Num(1), Num(0))),
                    Seg(AGE_Teen, Str_other, Num(2), Perf(Num(6), Num(3), Num(1)))>>),
         NoList, NoList, NoList)>>

\* a segment without age group, then a Teen one
UnknownBeforeTeen ==
  <<Camp(<<Num(12), Num(24)>>,
         SomeList(<<Seg(NoString, STR_male, Undefined, Perf(Num(4), Num(2), Num(1))),
                    Seg(AGE_Teen, STR_male, Undefined, Perf(Num(2), Num(1), Num(0)))>>),
         NoList, NoList, NoList)>>

\* a male age group without activity, and one with a fractional count
IdleAndFractional ==
  <<Camp(<<Num(12), Num(24)>>,
         SomeList(<<Seg(AGE_25_34, STR_male, Num(1), NoPerformance),
                    Seg(AGE_18_24, STR_male, Num(1), Perf(Frac(5, 2), Num(1), Num(1)))>>),
         NoList, NoList, NoList)>>

\* age groups and genders in several spellings, an absent age group beside
\* the literal "Unknown"
AGE_teen == <<"t","e","e","n">>
AGE_18_24_Spaced == <<" ","1","8","-","2","4">>

Spellings ==
  <<Camp(<<Num(12), Num(24)>>,
         SomeList(<<Seg(AGE_Teen, Str_Male, Undefined, Perf(Num(8), Num(1), Num(1))),
                    Seg(AGE_teen, STR_male, Undefined, Perf(Num(8), Num(2), Num(0))),
                    Seg(AGE_18_24_Spaced, <<"F","E","M","A","L","E">>, Undefined, Perf(Num(8), Num(3), Num(1))),
                    Seg(AGE_18_24, STR_female, Undefined, Perf(Num(8), Num(4), Num(0))),
                    Seg(NoString, Str_other, Undefined, Perf(Num(8), Num(5), Num(1))),
                    Seg(STR_Unknown, STR_male, Undefined, Perf(Num(8), Num(6), Num(0)))>>),
         NoList, NoList, NoList)>>

\* one click on mobile and two on desktop; desktop spends and earns nothing
UnevenClicks ==
  <<Camp(NoMoney, NoList,
         SomeList(<<Dev(STR_Mobile, Num(12), Num(1), Num(0), Num(3), Num(1)),
                    Dev(STR_Desktop, Num(7), Num(2), Num(1), Num(4), Num(0))>>),
         NoList, NoList)>>

\* two weeks whose boundary strings differ but concatenate to the same text
WeekSplitEarly == Week(<<"W","1">>, <<"a","_","b">>, Num(1), Num(2))
WeekSplitLate == Week(<<"W","1","_","a">>, <<"b">>, Num(4), Num(8))

UnderscoreWeeks ==
  <<Camp(NoMoney, NoList, NoList, NoList, SomeList(<<WeekSplitEarly, WeekSplitLate>>))>>

\* the same two weeks, one campaign each
UnderscoreWeeksApart ==
  <<Camp(NoMoney, NoList, NoList, NoList, SomeList(<<WeekSplitEarly>>)),
    Camp(NoMoney, NoList, NoList, NoList, SomeList(<<WeekSplitLate>>))>>

\* a week without week_start between a later and an earlier week
UndatedWeekBetween ==
  <<Camp(NoMoney, NoList, NoList, NoList,
         SomeList(<<Week(Date_0108, Date_0114, Num(5), Num(10)),
                    Week(NoString, Date_0107, Num(1), Num(1)),
                    Week(Date_0101, Date_0107, Num(3), Num(6))>>))>>

PayloadLists ==
  [v \in Views |->
     UNION { ListsOfCost(v, n) : n \in 0..MaxEntries }
     \cup (IF v = "demographic" THEN {Scenario, AgeExample, UnknownBeforeTeen, IdleAndFractional, Spellings} ELSE {})
     \cup (IF v = "device" THEN {UnevenClicks} ELSE {})
     \cup (IF v = "weekly" THEN {UnderscoreWeeks, UnderscoreWeeksApart, UndatedWeekBetween} ELSE {})]

\* the JSON bodies: an object without a campaigns field, or with a list
Bodies(v) == {NoList} \cup {SomeList(l) : l \in PayloadLists[v]}

(***************************************************************************)
(* The four views: fetch, then aggregate and build the rendered data       *)
(***************************************************************************)
NotRun == [ran |-> FALSE]

DemographicRendered(agg, orderedAgeGroups) ==
  [ran |-> TRUE,
   genderTotals |-> agg.genderTotals,
   ageTotals |-> agg.ageTotals,
   genderAgeTotals |-> agg.genderAgeTotals,
   allocs |-> agg.allocs,
   orderedAgeGroups |-> orderedAgeGroups,
   ageSpendData |->
     buildAgeSeries(agg.ageTotals, orderedAgeGroups, "spend", Len(orderedAgeGroups)),
   ageRevenueData |->
     buildAgeSeries(agg.ageTotals, orderedAgeGroups, "revenue", Len(orderedAgeGroups)),
   maleAgeTableData |->
     buildGenderAgeTableData(agg.genderAgeTotals.male, orderedAgeGroups),
   femaleAgeTableData |->
     buildGenderAgeTableData(agg.genderAgeTotals.female, orderedAgeGroups)]

DemographicAggregated(agg) == DemographicRendered(agg, buildOrderedAgeGroups(agg.ageTotals))

\* what DemographicView computes after the fetch
DemographicOutput(list) == DemographicAggregated(aggregateCampaignMetrics(list))

\* DEVICE_ORDER.map((key) => ({label: DEVICE_LABELS[key], value: metrics[key][metric]}))
DeviceComparison(metrics, metric) ==
  [i \in 1..Len(DEVICE_ORDER) |->
     [label |-> DEVICE_LABELS[DEVICE_ORDER[i]], value |-> metrics[DEVICE_ORDER[i]][metric]]]

\* value.toFixed(1) of a finite number: the nearest number of tenths, the
\* larger one of two equally near; given as sign and tenths
TenthsOfBits(sign, bits, e) ==
  [kind |-> "fixed", sign |-> sign,
   tenths |-> (IF Len(bits) + e <= 0 THEN 0 ELSE NatOfBits(SubSeq(bits, 1, Len(bits) + e)))
              + (IF Len(bits) + e < 0 \/ e >= 0 THEN 0 ELSE bits[Len(bits) + e + 1])]

ToFixed1(value) ==
  IF value.k = "bin"
  THEN TenthsOfBits(value.n, StripLeading(BitsOfDigits(MulDigits(DigitsOfBits(value.m), 10, 0))),
                    value.e)
  ELSE IF value.k = "fin"
  THEN [kind |-> "fixed", sign |-> IF value.n < 0 THEN -1 ELSE 1,
        tenths |-> (20 * Abs(value.n) + value.d) \div (2 * value.d)]
  ELSE [kind |-> IF value.k = "nan" THEN "NaN" ELSE "Infinity",
        sign |-> IF value.n < 0 THEN -1 ELSE 1, tenths |-> 0]

\* the condition of `roas ? ... : 'NA'`: null, 0 and NaN are falsy
Truthy(value) == value.k \notin {"null", "undef", "nan"} /\ ~(value.k = "fin" /\ value.n = 0)

NA == [kind |-> "NA", sign |-> 1, tenths |-> 0]

\* stats.roas ? `${stats.roas.toFixed(1)}x` : 'NA'
RoasCard(roas) == IF Truthy(roas) THEN ToFixed1(roas) ELSE NA

DeviceCharts(deviceTotals, metrics) ==
  [ran |-> TRUE, deviceTotals |-> deviceTotals, metrics |-> metrics,
   spendComparison |-> DeviceComparison(metrics, "spend"),
   revenueComparison |-> DeviceComparison(metrics, "revenue"),
   roasCard |-> [key \in {"mobile", "desktop"} |-> RoasCard(metrics[key].roas)]]

DeviceRendered(deviceTotals) == DeviceCharts(deviceTotals, enrichMetrics(deviceTotals))

\* what DeviceView computes after the fetch
DeviceOutput(list) == DeviceRendered(aggregateDevicePerformance(list))

\* a plausible slip: the map drawn whatever the data
BubbleMapUnguarded(data) == "map"

\* BubbleMap: the placeholder when there is no data, else the map
BubbleMap(data) == IF Len(data) = 0 THEN "No regional data available" ELSE "map"

\* nothing is rendered when the aggregation raised
RegionMaps(r, revenueMapData, spendMapData) ==
  [ran |-> TRUE, threw |-> r.threw,
   regionAggregates |-> r.value,
   missingRegions |-> r.missingRegions,
   revenueMapData |-> revenueMapData,
   spendMapData |-> spendMapData,
   revenueMap |-> IF r.threw THEN "none" ELSE BubbleMap(revenueMapData),
   spendMap |-> IF r.threw THEN "none" ELSE BubbleMap(spendMapData)]

RegionRendered(r) ==
  RegionMaps(r, MapPoints(r.value, "revenue", Len(r.value)),
             MapPoints(r.value, "spend", Len(r.value)))

\* what RegionView computes after the fetch, or threw = TRUE when it raised
RegionOutput(list) == RegionRendered(aggregateRegionalPerformance(list))

\* a plausible slip: the chart drawn whatever the data
LineChartUnguarded(data) == "chart"

\* LineChart: the placeholder when there is no data, else the chart
LineChart(data) == IF Len(data) = 0 THEN "No data available" ELSE "chart"

\* formatWeekLabel(isoDate) raises a RangeError when the date is invalid
FormatWeekLabelThrows(isoDate) == ~IsFin(DateGetTime(isoDate))

\* weeklyAggregates.map((week) => ({label: formatWeekLabel(week.weekStart),
\* value: week[metric]})); the label is kept as the instant it formats
WeekLineData(weeklyAggregates, metric) ==
  [i \in 1..Len(weeklyAggregates) |->
     [label |-> DateGetTime(weeklyAggregates[i].weekStart),
      value |-> weeklyAggregates[i][metric]]]

\* a label of the line data, or one of the two of rangeSummary, raises
WeeklyViewThrows(weeklyAggregates) ==
  \/ \E i \in 1..Len(weeklyAggregates) : FormatWeekLabelThrows(weeklyAggregates[i].weekStart)
  \/ /\ Len(weeklyAggregates) > 0
     /\ FormatWeekLabelThrows(weeklyAggregates[Len(weeklyAggregates)].weekEnd)

WeeklyCharts(weeklyAggregates, threw, revenueLineData, spendLineData) ==
  [ran |-> TRUE, threw |-> threw,
   weeklyAggregates |-> weeklyAggregates,
   revenueLineData |-> IF threw THEN <<>> ELSE revenueLineData,
   spendLineData |-> IF threw THEN <<>> ELSE spendLineData,
   revenueChart |-> IF threw THEN "none" ELSE LineChart(revenueLineData),
   spendChart |-> IF threw THEN "none" ELSE LineChart(spendLineData)]

WeeklyRendered(weeklyAggregates) ==
  WeeklyCharts(weeklyAggregates, WeeklyViewThrows(weeklyAggregates),
               WeekLineData(weeklyAggregates, "revenue"),
               WeekLineData(weeklyAggregates, "spend"))

\* what WeeklyView computes after the fetch, or threw = TRUE when it raised
WeeklyOutput(list) == WeeklyRendered(aggregateWeeklyPerformance(list))

Init ==
  /\ view = "none"
  /\ pc = "idle"
  /\ fetched = [kind |-> "none", error |-> "none", body |-> NoList]
  /\ campaigns = <<>>
  /\ demo = NotRun
  /\ device = NotRun
  /\ region = NotRun
  /\ weekly = NotRun

\* a page is requested: its server component starts and awaits the fetch
Request(v) ==
  /\ pc = "idle"
  /\ view' = v
  /\ pc' = "fetching"
  /\ UNCHANGED <<fetched, campaigns, demo, device, region, weekly>>

\* marketingData?.campaigns ?? []
CampaignsOf(result) == IF result.kind = "data" THEN ListOrEmpty(result.body) ELSE <<>>

ViewRenders(result, list, d, v, r, w) ==
  /\ fetched' = result
  /\ campaigns' = list
  /\ demo' = d
  /\ device' = v
  /\ region' = r
  /\ weekly' = w
  /\ pc' = IF (r.ran /\ r.threw) \/ (w.ran /\ w.threw) THEN "failed" ELSE "rendered"
  /\ UNCHANGED view

\* the rest of the view after `await fetchMarketingData()` gave `result`:
\* campaigns = marketingData?.campaigns ?? [], the aggregation, the adapters
ViewContinues(result) ==
  ViewRenders(result, CampaignsOf(result),
    IF view = "demographic" THEN DemographicOutput(CampaignsOf(result)) ELSE demo,
    IF view = "device" THEN DeviceOutput(CampaignsOf(result)) ELSE device,
    IF view = "region" THEN RegionOutput(CampaignsOf(result)) ELSE region,
    IF view = "weekly" THEN WeeklyOutput(CampaignsOf(result)) ELSE weekly)

\* fetchMarketingData of the demographic page: fetch() rejects (network
\* failure); the catch block returns null
FetchRejected ==
  /\ pc = "fetching" /\ view = "demographic"
  /\ ViewContinues([kind |-> "null", error |-> "network", body |-> NoList])

\* the response arrives with a non-2xx status: the throw is caught, null
ResponseNotOk ==
  /\ pc = "fetching" /\ view = "demographic"
  /\ ViewContinues([kind |-> "null", error |-> "status", body |-> NoList])

\* the response is ok: `return response.json()` leaves the try block with
\* the pending promise, which the async function's own promise follows
ResponseOk ==
  /\ pc = "fetching" /\ view = "demographic"
  /\ pc' = "parsing"
  /\ UNCHANGED <<view, fetched, campaigns, demo, device, region, weekly>>

\* response.json() resolves with the parsed body
JsonResolved ==
  /\ pc = "parsing"
  /\ \E body \in Bodies(view) : ViewContinues([kind |-> "data", error |-> "none", body |-> body])

\* response.json() rejects (the body is not JSON): nothing awaits it inside
\* the try block, so fetchMarketingData's promise rejects and the await in
\* DemographicView throws
JsonRejected ==
  /\ pc = "parsing"
  /\ pc' = "failed"
  /\ fetched' = [kind |-> "rejected", error |-> "syntax", body |-> NoList]
  /\ UNCHANGED <<view, campaigns, demo, device, region, weekly>>

\* fetchMarketingData of src/lib/api, used by the other three views: any
\* failure gives null
LibFetchFailed ==
  /\ pc = "fetching" /\ view # "demographic"
  /\ ViewContinues([kind |-> "null", error |-> "failed", body |-> NoList])

LibFetchSucceeded ==
  /\ pc = "fetching" /\ view # "demographic"
  /\ \E body \in Bodies(view) : ViewContinues([kind |-> "data", error |-> "none", body |-> body])

\* the request is over; nothing is kept for the next one
RequestEnds ==
  /\ pc \in {"rendered", "failed"}
  /\ view' = "none"
  /\ pc' = "idle"
  /\ fetched' = [kind |-> "none", error |-> "none", body |-> NoList]
  /\ campaigns' = <<>>
  /\ demo' = NotRun
  /\ device' = NotRun
  /\ region' = NotRun
  /\ weekly' = NotRun

Next ==
  \/ \E v \in Views : Request(v)
  \/ FetchRejected
  \/ ResponseNotOk
  \/ ResponseOk
  \/ JsonResolved
  \/ JsonRejected
  \/ LibFetchFailed
  \/ LibFetchSucceeded
  \/ RequestEnds

Spec == Init /\ [][Next]_vars

(***************************************************************************)
(* The aggregators called directly, any number of times up to two each, in *)
(* any order, on one campaign list held in memory                          *)
(***************************************************************************)
\* a segment as breakdowns.forEach leaves it: the callback only reads it
SegmentAfter(segment) == segment

\* a device entry as devicePerformance.forEach leaves it: `existing` is the
\* object held by totals or a new one, never deviceStat
DeviceStatAfter(deviceStat) == deviceStat

\* a plausible slip: totals.get(key) ?? regionStat, the entry itself accumulated into
RegionStatAliased(regionStat) ==
  [regionStat EXCEPT !.spend = Add(FiniteOrZero(@), FiniteOrZero(@)),
                     !.revenue = Add(FiniteOrZero(@), FiniteOrZero(@))]

\* a regional entry as regionalPerformance.forEach leaves it
RegionStatAfter(regionStat) == regionStat

\* a weekly entry as weeklyPerformance.forEach leaves it
WeekAfter(week) == week

EntryAfter(aggregator, entry) ==
  IF aggregator = "demographic" THEN SegmentAfter(entry)
  ELSE IF aggregator = "device" THEN DeviceStatAfter(entry)
  ELSE IF aggregator = "region" THEN RegionStatAfter(entry)
  ELSE WeekAfter(entry)

ListAfter(aggregator, l) ==
  [def |-> l.def, items |-> [j \in 1..Len(l.items) |-> EntryAfter(aggregator, l.items[j])]]

\* the campaign list in memory once the aggregator has returned
CampaignsAfter(aggregator, list) ==
  [i \in 1..Len(list) |->
     IF aggregator = "demographic"
     THEN [list[i] EXCEPT !.demographic_breakdown = ListAfter(aggregator, @)]
     ELSE IF aggregator = "device"
     THEN [list[i] EXCEPT !.device_performance = ListAfter(aggregator, @)]
     ELSE IF aggregator = "region"
     THEN [list[i] EXCEPT !.regional_performance = ListAfter(aggregator, @)]
     ELSE [list[i] EXCEPT !.weekly_performance = ListAfter(aggregator, @)]]

\* campaigns that carry all four lists
FullCampaigns ==
  { Camp(<<Num(12), Num(24)>>, SomeList(segs), SomeList(devs), SomeList(regs), SomeList(weeks)) :
      segs \in { <<Seg(AGE_18_24, STR_male, Num(3), Perf(Num(4), Num(2), Num(1)))>>,
                 <<Seg(AGE_25_34, Str_Female, Num(1), Perf(Num(2), Num(0), Num(1))),
                   Seg(AGE_18_24, Str_Male, Undefined, Perf(Undefined, Num(1), Num(1)))>> },
      devs \in { <<Dev(STR_mobile, Num(4), Num(2), Num(1), Num(6), Num(12))>>,
                 <<Dev(STR_Desktop, Num(10), Num(2), Num(1), Num(3), Num(0)),
                   Dev(STR_desktop, Num(0), Num(0), Num(0), Num(-2), Num(5))>> },
      regs \in { <<Reg(<<"D","u","b","a","i">>, Str_UAE, Num(5), Num(10)),
                   Reg(<<" ","d","u","b","a","i"," ">>, <<"A","E">>, Num(1), Num(20))>>,
                 <<Reg(<<"D","o","h","a">>, Str_Qatar, Num(2), Num(15)),
                   Reg(<<"A","t","l","a","n","t","i","s">>, NoString, Num(7), Num(7))>> },
      weeks \in { <<Week(Date_0108, Date_0114, Num(5), Num(10)),
                    Week(Date_0108, Date_0114, Num(1), NaN)>>,
                  <<Week(Date_0108, Date_0114, Num(5), Num(10)),
                    Week(Date_0101, Date_0107, Num(3), Num(6))>> } }

FullLists == {<<c>> : c \in FullCampaigns}

MaxCalls == 2

NotCalled == [ran |-> FALSE, calls |-> 0]

Called(before, output) ==
  [ran |-> TRUE, calls |-> before.calls + 1,
   first |-> IF before.calls = 0 THEN output ELSE before.first,
   last |-> output]

\* the list is loaded; `fetched` keeps it as it was loaded
DirectInit ==
  /\ view = "none"
  /\ pc = "direct"
  /\ \E list \in FullLists :
       /\ fetched = [kind |-> "data", error |-> "none", body |-> SomeList(list)]
       /\ campaigns = list
  /\ demo = NotCalled
  /\ device = NotCalled
  /\ region = NotCalled
  /\ weekly = NotCalled

CallAggregateCampaignMetrics ==
  /\ demo.calls < MaxCalls
  /\ demo' = Called(demo, aggregateCampaignMetrics(campaigns))
  /\ campaigns' = CampaignsAfter("demographic", campaigns)
  /\ UNCHANGED <<view, pc, fetched, device, region, weekly>>

CallAggregateDevicePerformance ==
  /\ device.calls < MaxCalls
  /\ device' = Called(device, aggregateDevicePerformance(campaigns))
  /\ campaigns' = CampaignsAfter("device", campaigns)
  /\ UNCHANGED <<view, pc, fetched, demo, region, weekly>>

CallAggregateRegionalPerformance ==
  /\ region.calls < MaxCalls
  /\ region' = Called(region, aggregateRegionalPerformance(campaigns))
  /\ campaigns' = CampaignsAfter("region", campaigns)
  /\ UNCHANGED <<view, pc, fetched, demo, device, weekly>>

CallAggregateWeeklyPerformance ==
  /\ weekly.calls < MaxCalls
  /\ weekly' = Called(weekly, aggregateWeeklyPerformance(campaigns))
  /\ campaigns' = CampaignsAfter("weekly", campaigns)
  /\ UNCHANGED <<view, pc, fetched, demo, device, region>>

DirectNext ==
  \/ CallAggregateCampaignMetrics
  \/ CallAggregateDevicePerformance
  \/ CallAggregateRegionalPerformance
  \/ CallAggregateWeeklyPerformance

DirectSpec == DirectInit /\ [][DirectNext]_vars

(***************************************************************************)
(* Properties                                                              *)
(***************************************************************************)
DemoRendered == pc = "rendered" /\ view = "demographic"
DeviceShown == pc = "rendered" /\ view = "device"
RegionRan == view = "region" /\ pc \in {"rendered", "failed"}

SegmentsOf(campaign) == ListOrEmpty(campaign.demographic_breakdown)

\* v <= 0
LeZero(v) == (v.k = "fin" /\ v.n <= 0) \/ v = NegInf

RECURSIVE SumAllocs(_, _, _)
SumAllocs(allocs, f, i) ==
  IF i = 0 THEN Num(0) ELSE Add(SumAllocs(allocs, f, i - 1), allocs[i][f])

HasPct(segment) == segment.percentage_of_audience.k # "undef"

(* C1: for every campaign with at least one segment and a finite spend S     *)
(* (revenue R), the spend (revenue) shares allocated to its segments sum to  *)
(* exactly S (R), whichever branch each segment takes.                       *)
C1_PartitionInvariant ==
  DemoRendered =>
    \A i \in 1..Len(campaigns) :
      LET spend == Coalesce(campaigns[i].spend, Num(0))
          revenue == Coalesce(campaigns[i].revenue, Num(0))
          n == Len(SegmentsOf(campaigns[i]))
      IN  n >= 1 =>
            /\ IsFin(spend) => SumAllocs(demo.allocs[i], "spendShare", n) = spend
            /\ IsFin(revenue) => SumAllocs(demo.allocs[i], "revenueShare", n) = revenue

\* the same, for the campaigns whose segments all carry a percentage or all lack one
PartitionWhenNotMixed ==
  DemoRendered =>
    \A i \in 1..Len(campaigns) :
      LET spend == Coalesce(campaigns[i].spend, Num(0))
          revenue == Coalesce(campaigns[i].revenue, Num(0))
          segs == SegmentsOf(campaigns[i])
          n == Len(segs)
      IN  (n >= 1 /\ \A j, l \in 1..n : HasPct(segs[j]) = HasPct(segs[l])) =>
            /\ IsFin(spend) => SumAllocs(demo.allocs[i], "spendShare", n) = spend
            /\ IsFin(revenue) => SumAllocs(demo.allocs[i], "revenueShare", n) = revenue

\* the sum of the percentages of a campaign's segments, an absent one counting 0
PctSum(segs) ==
  LET RECURSIVE S(_)
      S(i) == IF i = 0 THEN Num(0)
              ELSE Add(S(i - 1), IF HasPct(segs[i]) THEN segs[i].percentage_of_audience
                                 ELSE Num(0))
  IN  S(Len(segs))

C3_FetcherNeverThrows ==
  view = "demographic" =>
    /\ fetched.kind # "rejected"
    /\ fetched.error # "none" => fetched.kind = "null"

(* C4: no aggregator raises, whatever fields the campaign list lacks: a view *)
(* that got past its fetch has a well-formed aggregate, and fails only      *)
(* after its aggregation (the weekly view, on a label it cannot format).    *)
C4_NoFatalErrorPath ==
  /\ pc = "failed" => fetched.kind = "rejected" \/ (weekly.ran /\ weekly.threw)
  /\ region.ran => ~region.threw

\* a total that is a finite number
Finite(v) == v.k = "fin"

AllFinite(rec, fields) == \A f \in fields : Finite(rec[f])

FiveMetrics == {"spend", "revenue", "impressions", "clicks", "conversions"}

(* C5: a missing or non-finite numeric field contributes 0 in every          *)
(* aggregator, so every accumulated total of every output is finite.         *)
C5_ParseOrZero ==
  /\ DemoRendered =>
       /\ \A i \in 1..Len(demo.ageTotals) : AllFinite(demo.ageTotals[i].val, FiveMetrics)
       /\ \A g \in {"male", "female"} :
            /\ AllFinite(demo.genderTotals[g], {"clicks", "spend", "revenue"})
            /\ \A i \in 1..Len(demo.genderAgeTotals[g]) :
                 AllFinite(demo.genderAgeTotals[g][i].val, FiveMetrics)
  /\ DeviceShown =>
       \A i \in 1..Len(device.deviceTotals) :
         AllFinite(device.deviceTotals[i].val, FiveMetrics)
  /\ (view = "region" /\ pc = "rendered") =>
       \A i \in 1..Len(region.regionAggregates) :
         AllFinite(region.regionAggregates[i], {"spend", "revenue"})
  /\ (view = "weekly" /\ pc = "rendered") =>
       \A i \in 1..Len(weekly.weeklyAggregates) :
         AllFinite(weekly.weeklyAggregates[i], {"spend", "revenue"})

\* the part of it that the device, region and week aggregators keep
FiniteOutsideDemographic ==
  /\ DeviceShown =>
       \A i \in 1..Len(device.deviceTotals) :
         AllFinite(device.deviceTotals[i].val, FiveMetrics)
  /\ (view = "region" /\ pc = "rendered") =>
       \A i \in 1..Len(region.regionAggregates) :
         AllFinite(region.regionAggregates[i], {"spend", "revenue"})
  /\ (view = "weekly" /\ pc = "rendered") =>
       \A i \in 1..Len(weekly.weeklyAggregates) :
         AllFinite(weekly.weeklyAggregates[i], {"spend", "revenue"})

\* the positions <<campaign, segment>> of the payload's segments
SegmentPositions ==
  UNION { {<<i, j>> : j \in 1..Len(SegmentsOf(campaigns[i]))} : i \in 1..Len(campaigns) }

SegmentAt(p) == SegmentsOf(campaigns[p[1]])[p[2]]

\* the gender of a segment as the aggregator reads it
NormalizedGender(segment) ==
  IF IsNoString(segment.gender) THEN EmptyString ELSE ToLowerCase(segment.gender)

AgeOf(segment) == IF IsNoString(segment.age_group) THEN STR_Unknown ELSE segment.age_group

\* what the segment at p adds to the metric f of an accumulator
Contribution(p, f) ==
  IF f = "spend" THEN demo.allocs[p[1]][p[2]].spendShare
  ELSE IF f = "revenue" THEN demo.allocs[p[1]][p[2]].revenueShare
  ELSE IF SegmentAt(p).performance.def
       THEN Coalesce(SegmentAt(p).performance[f], Num(0)) ELSE Num(0)

RECURSIVE SumContributions(_, _)
SumContributions(ps, f) ==
  IF ps = {} THEN Num(0)
  ELSE LET p == CHOOSE q \in ps : \A r \in ps : q[1] > r[1] \/ (q[1] = r[1] /\ q[2] >= r[2])
       IN  Add(SumContributions(ps \ {p}, f), Contribution(p, f))

OfGender(g) == {p \in SegmentPositions : NormalizedGender(SegmentAt(p)) = g}
OfAge(a) == {p \in SegmentPositions : AgeOf(SegmentAt(p)) = a}

\* the map m holds exactly the age groups of ps, each with the sums over ps
AgeMapIs(m, ps) ==
  /\ {m[i].key : i \in 1..Len(m)} = {AgeOf(SegmentAt(p)) : p \in ps}
  /\ \A i \in 1..Len(m) : \A f \in FiveMetrics :
       m[i].val[f] = SumContributions(ps \cap OfAge(m[i].key), f)

(* C6: genderTotals and genderAgeTotals hold exactly the contributions of    *)
(* the segments whose gender, lowercased, is "male" or "female"; ageTotals   *)
(* holds the five metrics of every segment, whatever its gender.             *)
C6_GenderExclusion ==
  DemoRendered =>
    /\ \A g \in {"male", "female"} :
         LET ps == OfGender(IF g = "male" THEN STR_male ELSE STR_female)
         IN  /\ \A f \in {"clicks", "spend", "revenue"} :
                  demo.genderTotals[g][f] = SumContributions(ps, f)
             /\ AgeMapIs(demo.genderAgeTotals[g], ps)
    /\ AgeMapIs(demo.ageTotals, SegmentPositions)

\* a segment of another gender with clicks, counted nowhere but in ageTotals,
\* beside a segment counted as male although written with a capital
C6_Witness ==
  /\ DemoRendered
  /\ \E p \in SegmentPositions :
       /\ NormalizedGender(SegmentAt(p)) \notin {STR_male, STR_female}
       /\ Gt(Contribution(p, "clicks"), Num(0))
       /\ Gt(MapGet(demo.ageTotals, AgeOf(SegmentAt(p)), createEmptyAgeMetrics).clicks, Num(0))
  /\ \E p \in SegmentPositions :
       /\ SegmentAt(p).gender = Str_Male
       /\ Gt(demo.genderTotals.male.clicks, Num(0))

(* C7: for campaign A (spend 100; male/18-24 with 60, female/25-34 with 40)  *)
(* and campaign B (spend 50; one male/18-24 segment without percentage):     *)
(* male 18-24 spend = 110, female 25-34 spend = 40, genderTotals.male.spend  *)
(* = 110 and genderTotals.female.spend = 40.                                 *)
C7_EndToEndScenario ==
  (DemoRendered /\ campaigns = Scenario) =>
    /\ MapGet(demo.genderAgeTotals.male, AGE_18_24, createEmptyAgeMetrics).spend = Num(110)
    /\ MapGet(demo.genderAgeTotals.female, AGE_25_34, createEmptyAgeMetrics).spend = Num(40)
    /\ demo.genderTotals.male.spend = Num(110)
    /\ demo.genderTotals.female.spend = Num(40)

C7_Witness ==
  /\ DemoRendered /\ campaigns = Scenario
  /\ MapHas(demo.genderAgeTotals.male, AGE_18_24)
  /\ MapHas(demo.genderAgeTotals.female, AGE_25_34)

\* the positions <<campaign, entry>> of the payload's device entries
DevicePositions ==
  UNION { {<<i, j>> : j \in 1..Len(ListOrEmpty(campaigns[i].device_performance))} :
            i \in 1..Len(campaigns) }

DeviceAt(p) == ListOrEmpty(campaigns[p[1]].device_performance)[p[2]]

\* the entries whose label is the text label, ignoring case
LabelledAs(label) ==
  {p \in DevicePositions :
     ~IsNoString(DeviceAt(p).device) /\ ToLowerCase(DeviceAt(p).device) = label}

\* a field that counts: absent or not finite counts 0
Counted(v) == IF v.k = "fin" THEN v ELSE Num(0)

RECURSIVE SumDevice(_, _)
SumDevice(ps, f) ==
  IF ps = {} THEN Num(0)
  ELSE LET p == CHOOSE q \in ps : \A r \in ps : q[1] > r[1] \/ (q[1] = r[1] /\ q[2] >= r[2])
       IN  Add(SumDevice(ps \ {p}, f), Counted(DeviceAt(p)[f]))

DeviceLabel(k) == IF k = "mobile" THEN STR_mobile ELSE STR_desktop

(* C8: only the entries labelled "mobile" or "desktop", ignoring case, are   *)
(* accumulated; any other entry changes no bucket and no traffic share;      *)
(* enrichMetrics has both keys, a key without entries with five zero totals. *)
C8_DeviceFilter ==
  DeviceShown =>
    /\ DOMAIN device.metrics = {"mobile", "desktop"}
    /\ \A k \in {"mobile", "desktop"} :
         /\ \A f \in FiveMetrics :
              device.metrics[k][f] = SumDevice(LabelledAs(DeviceLabel(k)), f)
         /\ LabelledAs(DeviceLabel(k)) = {} =>
              \A f \in FiveMetrics : device.metrics[k][f] = Num(0)
         /\ LET total == Add(device.metrics.mobile.clicks, device.metrics.desktop.clicks)
            IN  device.metrics[k].trafficShare =
                  IF Gt(total, Num(0))
                  THEN Times64(Div64(device.metrics[k].clicks, total), 100) ELSE Num(0)

\* a tablet entry with clicks beside a "Desktop" one: desktop has all the
\* traffic, mobile is absent and all zero
C8_Witness ==
  /\ DeviceShown
  /\ \E p \in DevicePositions :
       /\ ~IsNoString(DeviceAt(p).device)
       /\ ToLowerCase(DeviceAt(p).device) \notin {STR_mobile, STR_desktop}
       /\ Gt(DeviceAt(p).clicks, Num(0))
  /\ \E p \in LabelledAs(STR_desktop) : DeviceAt(p).device = STR_Desktop
  /\ device.metrics.desktop.trafficShare = Num(100)
  /\ ~MapHas(device.deviceTotals, "mobile")
  /\ \A f \in FiveMetrics : device.metrics.mobile[f] = Num(0)

\* the rows of a gender's table, each with the accumulator it was built from
RowsFollowPolicy(rows, genderAgeMap) ==
  \A i \in 1..Len(rows) :
    LET totals == MapGet(genderAgeMap, rows[i].ageGroup, createEmptyAgeMetrics)
    IN  /\ LeZero(totals.impressions) => rows[i].ctr = Num(0)
        /\ LeZero(totals.clicks) => rows[i].conversionRate = Num(0)

(* C9: ctr = 0 when impressions <= 0, conversionRate = 0 when clicks <= 0,   *)
(* trafficShare = 0 when the total clicks <= 0, roas is null exactly when    *)
(* spend <= 0, and roas is the number 0 when spend > 0 and revenue = 0; in   *)
(* enrichMetrics, and for ctr and conversionRate in the gender/age tables.   *)
C9_ZeroDenominatorPolicy ==
  /\ DeviceShown =>
       \A k \in {"mobile", "desktop"} :
         LET m == device.metrics[k]
             total == Add(device.metrics.mobile.clicks, device.metrics.desktop.clicks)
         IN  /\ LeZero(m.impressions) => m.ctr = Num(0)
             /\ LeZero(m.clicks) => m.conversionRate = Num(0)
             /\ LeZero(total) => m.trafficShare = Num(0)
             /\ (m.roas = Null) <=> LeZero(m.spend)
             /\ (Gt(m.spend, Num(0)) /\ m.revenue = Num(0)) => m.roas = Num(0)
  /\ DemoRendered =>
       /\ RowsFollowPolicy(demo.maleAgeTableData, demo.genderAgeTotals.male)
       /\ RowsFollowPolicy(demo.femaleAgeTableData, demo.genderAgeTotals.female)

\* desktop spent and earned nothing (roas 0), mobile spent nothing (roas null)
C9_Witness ==
  /\ DeviceShown
  /\ Gt(device.metrics.desktop.spend, Num(0))
  /\ device.metrics.desktop.revenue = Num(0)
  /\ device.metrics.desktop.roas = Num(0)
  /\ device.metrics.mobile.spend = Num(0)
  /\ device.metrics.mobile.roas = Null
  /\ device.metrics.mobile.ctr = Num(0)

\* a table row whose accumulator has clicks but no impressions
RowWithoutImpressions ==
  /\ DemoRendered
  /\ \E i \in 1..Len(demo.maleAgeTableData) :
       /\ MapGet(demo.genderAgeTotals.male, demo.maleAgeTableData[i].ageGroup,
                 createEmptyAgeMetrics).impressions = Num(0)
       /\ demo.maleAgeTableData[i].ctr = Num(0)

\* the positions <<campaign, entry>> of the payload's regional entries
RegionPositions ==
  UNION { {<<i, j>> : j \in 1..Len(ListOrEmpty(campaigns[i].regional_performance))} :
            i \in 1..Len(campaigns) }

RegionAt(p) == ListOrEmpty(campaigns[p[1]].regional_performance)[p[2]]

\* the trimmed, lowercased name is one of the table's keys
IsTableKey(name) ==
  \E i \in 1..Len(REGION_COORDINATES) : REGION_COORDINATES[i].key = ToLowerCase(Trim(name))

CarriesTableCoordinates(r) ==
  \E i \in 1..Len(REGION_COORDINATES) :
    /\ r.latitude = Frac(REGION_COORDINATES[i].lat, 10000)
    /\ r.longitude = Frac(REGION_COORDINATES[i].lon, 10000)

\* the name is the label of no aggregate and of no map point
NameAbsent(name) ==
  /\ \A i \in 1..Len(region.regionAggregates) :
       ToLowerCase(Trim(region.regionAggregates[i].region)) # ToLowerCase(Trim(name))
  /\ \A i \in 1..Len(region.revenueMapData) : region.revenueMapData[i].label # name
  /\ \A i \in 1..Len(region.spendMapData) : region.spendMapData[i].label # name

(* C10: a regional entry whose trimmed, lowercased name is not a key of the  *)
(* coordinate table raises nothing, adds nothing, and its name is in neither *)
(* the returned list nor the map points; every returned aggregate carries    *)
(* the latitude and longitude of a table entry.                              *)
C10_RegionExclusion ==
  (RegionRan /\ \A p \in RegionPositions : ~IsNoString(RegionAt(p).region)) =>
    /\ pc = "rendered"
    /\ \A p \in RegionPositions :
         ~IsTableKey(RegionAt(p).region) => NameAbsent(RegionAt(p).region)
    /\ \A i \in 1..Len(region.regionAggregates) :
         CarriesTableCoordinates(region.regionAggregates[i])

\* the same, for the names that are not a property every object inherits
RegionExclusionOwnNames ==
  (RegionRan /\ \A p \in RegionPositions :
                  /\ ~IsNoString(RegionAt(p).region)
                  /\ ToLowerCase(Trim(RegionAt(p).region)) \notin InheritedKeys) =>
    /\ pc = "rendered"
    /\ \A p \in RegionPositions :
         ~IsTableKey(RegionAt(p).region) => NameAbsent(RegionAt(p).region)
    /\ \A i \in 1..Len(region.regionAggregates) :
         CarriesTableCoordinates(region.regionAggregates[i])

\* the region view rendered: aggregateRegionalPerformance returned
RegionShown == view = "region" /\ pc = "rendered"

NormalizedName(name) == ToLowerCase(Trim(name))

\* the regional entries of the payload with the same normalized name
NamedLike(name) ==
  {p \in RegionPositions : NormalizedName(RegionAt(p).region) = NormalizedName(name)}

\* p comes before q in input order
Before(p, q) == p[1] < q[1] \/ (p[1] = q[1] /\ p[2] <= q[2])

FirstOf(ps) == CHOOSE p \in ps : \A q \in ps : Before(p, q)
LastOf(ps) == CHOOSE p \in ps : \A q \in ps : Before(q, p)

RECURSIVE SumRegion(_, _)
SumRegion(ps, f) ==
  IF ps = {} THEN Num(0)
  ELSE Add(SumRegion(ps \ {LastOf(ps)}, f), Counted(RegionAt(LastOf(ps))[f]))

TableRowOf(name) ==
  REGION_COORDINATES[CHOOSE i \in 1..Len(REGION_COORDINATES) :
                       REGION_COORDINATES[i].key = NormalizedName(name)]

(* C11: regional entries with the same trimmed, lowercased name are summed   *)
(* into one aggregate, entries with different normalized names into          *)
(* different ones, and an aggregate keeps the display name, the country and  *)
(* the coordinates of the first of its entries in input order.               *)
C11_RegionMerging ==
  RegionShown =>
    LET aggs == region.regionAggregates
    IN  /\ \A i, j \in 1..Len(aggs) :
             NormalizedName(aggs[i].region) = NormalizedName(aggs[j].region) => i = j
        /\ \A p \in RegionPositions :
             IsTableKey(RegionAt(p).region) =>
               \E i \in 1..Len(aggs) :
                 NormalizedName(aggs[i].region) = NormalizedName(RegionAt(p).region)
        /\ \A i \in 1..Len(aggs) :
             LET ps == NamedLike(aggs[i].region)
             IN  /\ ps # {}
                 /\ aggs[i].region = RegionAt(FirstOf(ps)).region
                 /\ aggs[i].country = RegionAt(FirstOf(ps)).country
                 /\ aggs[i].spend = SumRegion(ps, "spend")
                 /\ aggs[i].revenue = SumRegion(ps, "revenue")
                 /\ IsTableKey(aggs[i].region) =>
                      /\ aggs[i].latitude = Frac(TableRowOf(aggs[i].region).lat, 10000)
                      /\ aggs[i].longitude = Frac(TableRowOf(aggs[i].region).lon, 10000)

\* two entries written differently merged under the first one's name and
\* country, beside no other aggregate
C11_Witness ==
  /\ RegionShown
  /\ Len(region.regionAggregates) = 1
  /\ \E p \in NamedLike(region.regionAggregates[1].region) :
       /\ RegionAt(p).region # region.regionAggregates[1].region
       /\ RegionAt(p).country # region.regionAggregates[1].country
       /\ region.regionAggregates[1].spend =
            Add(Counted(RegionAt(p).spend),
                Counted(RegionAt(FirstOf(NamedLike(RegionAt(p).region))).spend))

(* C12: the list returned by aggregateRegionalPerformance is in              *)
(* non-increasing order of revenue, so its first element has the greatest    *)
(* revenue of all the aggregates.                                            *)
C12_RegionSortedByRevenue ==
  RegionShown =>
    LET aggs == region.regionAggregates
    IN  /\ \A i, j \in 1..Len(aggs) : i < j => ~Gt(aggs[j].revenue, aggs[i].revenue)
        /\ \A i \in 1..Len(aggs) :
             Gt(aggs[1].revenue, aggs[i].revenue) \/ aggs[1].revenue = aggs[i].revenue

\* the sort moved something: the region with the greater revenue came second
\* in the payload and is first in the list
C12_Witness ==
  /\ RegionShown
  /\ Len(region.regionAggregates) = 2
  /\ Gt(region.regionAggregates[1].revenue, region.regionAggregates[2].revenue)
  /\ FirstOf(NamedLike(region.regionAggregates[1].region)) #
       FirstOf(NamedLike(region.regionAggregates[2].region))
  /\ Before(FirstOf(NamedLike(region.regionAggregates[2].region)),
            FirstOf(NamedLike(region.regionAggregates[1].region)))

\* the weekly view ran: aggregateWeeklyPerformance returned
WeeklyShown == view = "weekly" /\ pc \in {"rendered", "failed"}

\* the positions <<campaign, entry>> of the payload's weekly entries
WeekPositions ==
  UNION { {<<i, j>> : j \in 1..Len(ListOrEmpty(campaigns[i].weekly_performance))} :
            i \in 1..Len(campaigns) }

WeekAt(p) == ListOrEmpty(campaigns[p[1]].weekly_performance)[p[2]]

BoundariesOf(p) == <<WeekAt(p).week_start, WeekAt(p).week_end>>

WithBoundaries(ws, we) == {p \in WeekPositions : BoundariesOf(p) = <<ws, we>>}

RECURSIVE SumWeek(_, _)
SumWeek(ps, f) ==
  IF ps = {} THEN Num(0)
  ELSE Add(SumWeek(ps \ {LastOf(ps)}, f), Counted(WeekAt(LastOf(ps))[f]))

BucketsArePairs ==
  LET buckets == weekly.weeklyAggregates
  IN  /\ Len(buckets) = Cardinality({BoundariesOf(p) : p \in WeekPositions})
      /\ \A i \in 1..Len(buckets) :
           LET ps == WithBoundaries(buckets[i].weekStart, buckets[i].weekEnd)
           IN  /\ ps # {}
               /\ buckets[i].spend = SumWeek(ps, "spend")
               /\ buckets[i].revenue = SumWeek(ps, "revenue")

(* C13: two weekly entries share a bucket if and only if their week_start    *)
(* strings are identical and their week_end strings are identical: there are *)
(* as many buckets as distinct (week_start, week_end) pairs, and a bucket    *)
(* sums exactly the entries of its pair.                                     *)
C13_WeekKeying == WeeklyShown => BucketsArePairs

HasUnderscore(sv) == \E i \in 1..Len(sv) : sv[i] = "_"

\* the same, when every boundary is a string without an underscore
WeekKeyingPlainBoundaries ==
  (WeeklyShown /\ \A p \in WeekPositions :
                    /\ ~IsNoString(WeekAt(p).week_start) /\ ~HasUnderscore(WeekAt(p).week_start)
                    /\ ~IsNoString(WeekAt(p).week_end) /\ ~HasUnderscore(WeekAt(p).week_end))
    => BucketsArePairs

\* new Date(bucket.weekStart).getTime()
StartTime(bucket) == DateGetTime(bucket.weekStart)

FirstSeen(bucket) == FirstOf(WithBoundaries(bucket.weekStart, bucket.weekEnd))

WeeksInOrder ==
  LET buckets == weekly.weeklyAggregates
  IN  \A i, j \in 1..Len(buckets) :
        i < j =>
          /\ ~Gt(StartTime(buckets[i]), StartTime(buckets[j]))
          /\ ((IsFin(StartTime(buckets[i])) /\ StartTime(buckets[i]) = StartTime(buckets[j]))
                => Before(FirstSeen(buckets[i]), FirstSeen(buckets[j])))

(* C14: the list returned by aggregateWeeklyPerformance is in non-decreasing *)
(* order of the parsed week_start; buckets with the same parsed week_start   *)
(* keep their first-seen order.                                              *)
C14_WeekSortedByStart == WeeklyShown => WeeksInOrder

\* the same, when every week_start is a date
WeekSortedWhenDated ==
  (WeeklyShown /\ \A p \in WeekPositions : IsFin(DateGetTime(WeekAt(p).week_start)))
    => WeeksInOrder

\* the sort moved a dated week in front of one that came first in the payload
DatedWeeksSwapped ==
  /\ WeeklyShown
  /\ \A p \in WeekPositions : IsFin(DateGetTime(WeekAt(p).week_start))
  /\ Len(weekly.weeklyAggregates) = 2
  /\ FirstSeen(weekly.weeklyAggregates[1]) # FirstSeen(weekly.weeklyAggregates[2])
  /\ Before(FirstSeen(weekly.weeklyAggregates[2]), FirstSeen(weekly.weeklyAggregates[1]))

\* the age labels observed: the keys of ageTotals
ObservedAges == {demo.ageTotals[i].key : i \in 1..Len(demo.ageTotals)}

CanonicalAges == {AGE_18_24, AGE_25_34, AGE_35_44, AGE_45_54, AGE_55_PLUS}

(* C15: buildOrderedAgeGroups returns 18-24, 25-34, 35-44, 45-54, 55+ in     *)
(* that order, observed or not, then every other observed label once, in     *)
(* ascending lexicographic order; observed 55+, 18-24, Teen gives the five   *)
(* labels and Teen. No duplicates, and every key of ageTotals is there.      *)
C15_AgeOrdering ==
  DemoRendered =>
    LET o == demo.orderedAgeGroups
    IN  /\ Len(o) >= 5
        /\ SubSeq(o, 1, 5) = <<AGE_18_24, AGE_25_34, AGE_35_44, AGE_45_54, AGE_55_PLUS>>
        /\ {o[i] : i \in 6..Len(o)} = ObservedAges \ CanonicalAges
        /\ \A i, j \in 6..Len(o) : i < j => StringLess(o[i], o[j])
        /\ \A i, j \in 1..Len(o) : o[i] = o[j] => i = j
        /\ ObservedAges \subseteq {o[i] : i \in 1..Len(o)}
        /\ campaigns = AgeExample =>
             o = <<AGE_18_24, AGE_25_34, AGE_35_44, AGE_45_54, AGE_55_PLUS, AGE_Teen>>

\* the example: 55+, 18-24 and Teen observed in that order
C15_Witness ==
  /\ DemoRendered /\ campaigns = AgeExample
  /\ MapKeys(demo.ageTotals) = <<AGE_55_PLUS, AGE_18_24, AGE_Teen>>
  /\ Len(demo.orderedAgeGroups) = 6

\* two other labels, observed as Unknown then Teen, that the sort put in order
OtherLabelsSorted ==
  /\ DemoRendered /\ campaigns = UnknownBeforeTeen
  /\ MapKeys(demo.ageTotals) = <<STR_Unknown, AGE_Teen>>
  /\ demo.orderedAgeGroups[6] = AGE_Teen /\ demo.orderedAgeGroups[7] = STR_Unknown

NoPointAtOrBelowZero(series) == \A i \in 1..Len(series) : ~LeZero(series[i].value)

(* C16: no spend or revenue bar series holds a point whose value is zero or  *)
(* negative: neither the age series of buildAgeSeries nor the device series  *)
(* spendComparison and revenueComparison of DeviceView.                      *)
C16_BarSeriesFiltered ==
  /\ DemoRendered =>
       NoPointAtOrBelowZero(demo.ageSpendData) /\ NoPointAtOrBelowZero(demo.ageRevenueData)
  /\ DeviceShown =>
       NoPointAtOrBelowZero(device.spendComparison)
       /\ NoPointAtOrBelowZero(device.revenueComparison)

\* the part of it that buildAgeSeries keeps
AgeSeriesFiltered ==
  DemoRendered =>
    NoPointAtOrBelowZero(demo.ageSpendData) /\ NoPointAtOrBelowZero(demo.ageRevenueData)

\* an observed age group with spend 0 left out of the age series, beside one kept
AgeSeriesDropsZero ==
  /\ DemoRendered
  /\ \E i \in 1..Len(demo.ageTotals) :
       /\ demo.ageTotals[i].val.spend = Num(0)
       /\ \A j \in 1..Len(demo.ageSpendData) : demo.ageSpendData[j].label # demo.ageTotals[i].key
  /\ Len(demo.ageSpendData) >= 1

\* r is an integer nearest to v
NearestInteger(r, v) ==
  /\ r.k = "fin" /\ r.d = 1 /\ v.k = "fin"
  /\ 2 * Abs(v.n - r.n * v.d) <= v.d

Active(totals) ==
  Gt(totals.impressions, Num(0)) \/ Gt(totals.clicks, Num(0)) \/ Gt(totals.conversions, Num(0))

\* where the label stands in the ordered age groups
PlaceOf(label) ==
  CHOOSE i \in 1..Len(demo.orderedAgeGroups) : demo.orderedAgeGroups[i] = label

TableIsAdapted(rows, genderAgeMap) ==
  /\ {rows[i].ageGroup : i \in 1..Len(rows)} =
       {genderAgeMap[i].key : i \in {j \in 1..Len(genderAgeMap) : Active(genderAgeMap[j].val)}}
  /\ \A i, j \in 1..Len(rows) :
       i < j => /\ rows[i].ageGroup # rows[j].ageGroup
                /\ PlaceOf(rows[i].ageGroup) < PlaceOf(rows[j].ageGroup)
  /\ \A i \in 1..Len(rows) :
       LET totals == MapGet(genderAgeMap, rows[i].ageGroup, createEmptyAgeMetrics)
       IN  /\ NearestInteger(rows[i].impressions, totals.impressions)
           /\ NearestInteger(rows[i].clicks, totals.clicks)
           /\ NearestInteger(rows[i].conversions, totals.conversions)
           /\ Gt(totals.impressions, Num(0)) =>
                rows[i].ctr = Times64(Div64(totals.clicks, totals.impressions), 100)
           /\ totals.impressions = Num(0) => rows[i].ctr = Num(0)
           /\ Gt(totals.clicks, Num(0)) =>
                rows[i].conversionRate = Times64(Div64(totals.conversions, totals.clicks), 100)
           /\ totals.clicks = Num(0) => rows[i].conversionRate = Num(0)

(* C17: buildGenderAgeTableData emits a row for an age group if and only if  *)
(* the gender's map has the group with impressions, clicks or conversions    *)
(* above 0; a row carries the rounded totals, ctr = clicks/impressions*100   *)
(* (0 if impressions = 0) and conversionRate = conversions/clicks*100 (0 if  *)
(* clicks = 0); rows follow orderedAgeGroups, at most one per age group.     *)
C17_TableAdapter ==
  DemoRendered =>
    /\ TableIsAdapted(demo.maleAgeTableData, demo.genderAgeTotals.male)
    /\ TableIsAdapted(demo.femaleAgeTableData, demo.genderAgeTotals.female)

\* the male map has an age group without activity and one with 2.5
\* impressions: one row, impressions 3, ctr 40
C17_Witness ==
  /\ DemoRendered
  /\ Len(demo.genderAgeTotals.male) = 2
  /\ \E i \in 1..2 : ~Active(demo.genderAgeTotals.male[i].val)
  /\ Len(demo.maleAgeTableData) = 1
  /\ demo.maleAgeTableData[1].impressions = Num(3)
  /\ demo.maleAgeTableData[1].ctr = Num(40)

FirstPart(k) == SubSeq(campaigns, 1, k)
SecondPart(k) == SubSeq(campaigns, k + 1, Len(campaigns))

\* the total f under key in the map m, 0 when the key is absent
TotalIn(m, key, f) == IF MapHas(m, key) THEN MapGet(m, key, <<>>)[f] ELSE Num(0)

\* the map whole holds the keys of a and b, each total the sum of theirs
MapsAdd(whole, a, b, fields) ==
  /\ {whole[i].key : i \in 1..Len(whole)} =
       {a[i].key : i \in 1..Len(a)} \cup {b[i].key : i \in 1..Len(b)}
  /\ \A i \in 1..Len(whole) : \A f \in fields :
       whole[i].val[f] = Add(TotalIn(a, whole[i].key, f), TotalIn(b, whole[i].key, f))

DemographicAdds(whole, a, b) ==
  /\ MapsAdd(whole.ageTotals, a.ageTotals, b.ageTotals, FiveMetrics)
  /\ \A g \in {"male", "female"} :
       /\ MapsAdd(whole.genderAgeTotals[g], a.genderAgeTotals[g], b.genderAgeTotals[g],
                  FiveMetrics)
       /\ \A f \in {"clicks", "spend", "revenue"} :
            whole.genderTotals[g][f] = Add(a.genderTotals[g][f], b.genderTotals[g][f])

\* a list of region aggregates as a map from the normalized name
RegionsByName(l) == [i \in 1..Len(l) |-> [key |-> NormalizedName(l[i].region), val |-> l[i]]]

\* a list of week buckets as a map from the key the aggregator gave them
WeeksByKey(l) ==
  [i \in 1..Len(l) |->
     [key |-> TemplateString(l[i].weekStart) \o <<"_">> \o TemplateString(l[i].weekEnd),
      val |-> l[i]]]

Money == {"spend", "revenue"}

RegionsAddedAcrossCampaigns ==
  /\ RegionShown
  /\ Len(campaigns) = 2
  /\ Len(region.regionAggregates) = 1
  /\ Len(aggregateRegionalPerformance(FirstPart(1)).value) = 1
  /\ Len(aggregateRegionalPerformance(SecondPart(1)).value) = 1

\* ---- sequential flow of a view ----

\* the await of the fetch gave a value: null or the parsed body
FetchSettled == fetched.kind \in {"null", "data"}

\* the fetch gave null, or a body without a campaigns field
NothingFetched == fetched.kind = "null" \/ (fetched.kind = "data" /\ ~fetched.body.def)

\* some aggregator of the current request has run
SomeAggregatorRan == demo.ran \/ device.ran \/ region.ran \/ weekly.ran

\* the output of the page that was requested
OutputOf(v, d, dv, r, w) ==
  IF v = "demographic" THEN d ELSE IF v = "device" THEN dv
  ELSE IF v = "region" THEN r ELSE w

\* the list handed to the aggregators is the whole fetched list or the empty
\* list, never a part of it
WholeListOrEmpty ==
  campaigns = IF fetched.kind = "data" /\ fetched.body.def THEN fetched.body.items ELSE <<>>

\* aggregation never precedes the settling of the fetch, and a rendered page
\* has its aggregation behind it
AggregationAfterFetch ==
  /\ SomeAggregatorRan => FetchSettled /\ WholeListOrEmpty
  /\ ~FetchSettled => campaigns = <<>>
  /\ pc = "rendered" => OutputOf(view, demo, device, region, weekly).ran
  /\ pc \in {"idle", "fetching", "parsing"} => ~SomeAggregatorRan

\* with nothing fetched the region and week aggregates are empty and both
\* maps and both charts are the placeholder
PlaceholdersWhenNothingFetched ==
  NothingFetched =>
    /\ campaigns = <<>>
    /\ view = "region" =>
         /\ pc = "rendered" /\ region.ran /\ ~region.threw
         /\ region.regionAggregates = <<>>
         /\ region.revenueMap = "No regional data available"
         /\ region.spendMap = "No regional data available"
    /\ view = "weekly" =>
         /\ pc = "rendered" /\ weekly.ran /\ ~weekly.threw
         /\ weekly.weeklyAggregates = <<>>
         /\ weekly.revenueChart = "No data available"
         /\ weekly.spendChart = "No data available"

\* an aggregator runs in the step that settles the fetch, once per request,
\* and its output is not touched again until the request ends
AggregatesInSettlingStep ==
  <<demo, device, region, weekly>>' # <<demo, device, region, weekly>> =>
    \/ /\ pc \in {"fetching", "parsing"} /\ ~SomeAggregatorRan /\ ~FetchSettled
       /\ FetchSettled' /\ pc' \in {"rendered", "failed"}
       /\ OutputOf(view, demo, device, region, weekly)'.ran
    \/ /\ pc \in {"rendered", "failed"} /\ pc' = "idle" /\ ~SomeAggregatorRan'

\* C20: in every view the aggregation happens only once the fetch has
\* settled and the page is rendered only from a finished aggregation; when
\* the fetch gave null or a body without campaigns, the aggregators run once
\* over the empty list, never a partial one, so the region and week
\* aggregates are empty and BubbleMap and LineChart show their placeholder
C20_SequentialFlow ==
  /\ [](AggregationAfterFetch /\ PlaceholdersWhenNothingFetched)
  /\ [][AggregatesInSettlingStep]_vars

\* the weekly view rendered after the fetch gave null: no weeks, placeholders
C20_Witness ==
  /\ view = "weekly" /\ pc = "rendered" /\ fetched.kind = "null"
  /\ weekly.ran /\ weekly.weeklyAggregates = <<>>
  /\ weekly.revenueChart = "No data available"

\* the region view rendered from a body without a campaigns field
RegionPlaceholderWithoutCampaignsField ==
  /\ view = "region" /\ pc = "rendered"
  /\ fetched.kind = "data" /\ ~fetched.body.def
  /\ region.regionAggregates = <<>>
  /\ region.revenueMap = "No regional data available"

\* a week without a parseable week_start: the weekly view raises in
\* formatWeekLabel after the aggregation
WeeklyLabelRaised == view = "weekly" /\ pc = "failed" /\ weekly.ran /\ weekly.threw

\* the weekly view rendered a chart
WeeklyChartDrawn == view = "weekly" /\ pc = "rendered" /\ weekly.revenueChart = "chart"

\* ---- keys of the demographic aggregates ----

\* the segment at p is accumulated under the age key: its age_group string as
\* written, or "Unknown" when it has none
KeyedAs(p, key) ==
  IF IsNoString(SegmentAt(p).age_group) THEN key = STR_Unknown
  ELSE SegmentAt(p).age_group = key

\* two segments with the same age_group string, or each absent or "Unknown"
SameAgeGroup(p, q) ==
  \/ SegmentAt(p).age_group = SegmentAt(q).age_group
  \/ /\ SegmentAt(p).age_group \in {NoString, STR_Unknown}
     /\ SegmentAt(q).age_group \in {NoString, STR_Unknown}

\* the positions of the buckets of ageTotals the segment at p went into
AgeBucketsOf(p) == {i \in 1..Len(demo.ageTotals) : KeyedAs(p, demo.ageTotals[i].key)}

(* C21: a segment without age_group is accumulated under "Unknown", any      *)
(* other under its age_group string as written: every segment has one bucket *)
(* of ageTotals, two segments share it exactly when their age_group strings  *)
(* are identical (or each is absent or "Unknown"), and a bucket holds the    *)
(* sums of its segments.                                                     *)
C21_AgeKeying ==
  DemoRendered =>
    /\ \A p \in SegmentPositions : Cardinality(AgeBucketsOf(p)) = 1
    /\ \A p, q \in SegmentPositions :
         (AgeBucketsOf(p) = AgeBucketsOf(q)) <=> SameAgeGroup(p, q)
    /\ \A i \in 1..Len(demo.ageTotals) :
         LET members == {p \in SegmentPositions : i \in AgeBucketsOf(p)}
         IN  /\ members # {}
             /\ \A f \in FiveMetrics :
                  demo.ageTotals[i].val[f] = SumContributions(members, f)

\* the spellings kept apart, the absent age group with the literal "Unknown"
C21_Witness ==
  /\ DemoRendered /\ campaigns = Spellings
  /\ MapKeys(demo.ageTotals) = <<AGE_Teen, AGE_teen, AGE_18_24_Spaced, AGE_18_24, STR_Unknown>>
  /\ MapGet(demo.ageTotals, STR_Unknown, createEmptyAgeMetrics).clicks = Num(11)
  /\ MapGet(demo.ageTotals, AGE_Teen, createEmptyAgeMetrics).clicks = Num(1)

\* the segments whose gender string is exactly g
WrittenAs(g) == {p \in SegmentPositions : SegmentAt(p).gender = g}

(* C22: the gender of a segment is compared as written: genderTotals and     *)
(* genderAgeTotals hold the contributions of the segments whose gender is    *)
(* exactly "male" or "female", and a segment written "Male" or "FEMALE"      *)
(* contributes to none.                                                      *)
C22_GenderVerbatim ==
  DemoRendered =>
    \A g \in {"male", "female"} :
      LET ps == WrittenAs(IF g = "male" THEN STR_male ELSE STR_female)
      IN  /\ \A f \in {"clicks", "spend", "revenue"} :
               demo.genderTotals[g][f] = SumContributions(ps, f)
          /\ AgeMapIs(demo.genderAgeTotals[g], ps)

\* the segment written "Male" counted as male, the one written "FEMALE" as
\* female
CapitalsCounted ==
  /\ DemoRendered /\ campaigns = Spellings
  /\ demo.genderTotals.male.clicks = Num(9)
  /\ demo.genderTotals.female.clicks = Num(7)
  /\ MapHas(demo.genderAgeTotals.male, AGE_Teen)
  /\ MapHas(demo.genderAgeTotals.female, AGE_18_24_Spaced)

\* ---- traffic share ----

\* the bits and the exponent of a non-negative JavaScript number
Bits64(a) == IF a.k = "bin" THEN a.m ELSE BitsOfNat(a.n)
Exp64(a) == IF a.k = "bin" THEN a.e ELSE 1 - BitLength(a.d)

\* x * 2^ex + y * 2^ey in binary64
SumOfAligned(x, y, e, width) ==
  Round64(1, StripLeading(BitsOfDigits(AddDigits(DigitsOfBits(Zeros(width - Len(x)) \o x),
                                                 DigitsOfBits(Zeros(width - Len(y)) \o y), 0))),
          e, FALSE)

SumOfBits(x, ex, y, ey) ==
  IF ex <= ey
  THEN SumOfAligned(x, y \o Zeros(ey - ex), ex,
                    IF Len(x) > Len(y) + ey - ex THEN Len(x) ELSE Len(y) + ey - ex)
  ELSE SumOfAligned(x \o Zeros(ex - ey), y, ey,
                    IF Len(y) > Len(x) + ex - ey THEN Len(y) ELSE Len(x) + ex - ey)

\* a + b as JavaScript computes it, for two non-negative numbers
Plus64(a, b) ==
  IF a.k = "fin" /\ b.k = "fin" THEN Add(a, b)
  ELSE SumOfBits(Bits64(a), Exp64(a), Bits64(b), Exp64(b))

\* 0 <= a <= 100
WithinHundred(a) ==
  /\ a.k \in {"fin", "bin"} /\ a.n >= 0
  /\ IF a.k = "fin" THEN a.n <= 100 * a.d
     ELSE \/ Len(a.m) + a.e <= 0
          \/ Len(a.m) + a.e <= 7 /\ NatOfBits(SubSeq(a.m, 1, Len(a.m) + a.e)) < 100

\* the device view with non-negative click counts and a positive total
ClicksCounted ==
  /\ DeviceShown
  /\ \A k \in {"mobile", "desktop"} :
       device.metrics[k].clicks.k = "fin" /\ device.metrics[k].clicks.n >= 0
  /\ Gt(Add(device.metrics.mobile.clicks, device.metrics.desktop.clicks), Num(0))

\* each share is clicks / (mobile clicks + desktop clicks) * 100
ShareOfBothDevices ==
  ClicksCounted =>
    \A k \in {"mobile", "desktop"} :
      device.metrics[k].trafficShare =
        Times64(Div64(device.metrics[k].clicks,
                      Add(device.metrics.mobile.clicks, device.metrics.desktop.clicks)), 100)

\* each share lies in [0, 100]
ShareWithinRange ==
  ClicksCounted =>
    \A k \in {"mobile", "desktop"} : WithinHundred(device.metrics[k].trafficShare)

(* C23: with non-negative click counts and a positive total, the traffic     *)
(* share of a device is its clicks divided by the clicks of the mobile and   *)
(* desktop buckets, times 100; each share lies in [0, 100] and the two       *)
(* shares sum to exactly 100.                                                *)
C23_TrafficShare ==
  /\ ShareOfBothDevices
  /\ ShareWithinRange
  /\ ClicksCounted =>
       Plus64(device.metrics.mobile.trafficShare, device.metrics.desktop.trafficShare)
         = Num(100)

\* one click against two: 33.33333333333333 and 66.66666666666666, whose sum
\* is 99.99999999999999, the number next below 100
SharesMissHundred ==
  /\ ClicksCounted /\ campaigns = UnevenClicks
  /\ device.metrics.mobile.trafficShare.k = "bin"
  /\ device.metrics.desktop.trafficShare.k = "bin"
  /\ Plus64(device.metrics.mobile.trafficShare, device.metrics.desktop.trafficShare)
       = [k |-> "bin", n |-> 1, d |-> 1,
          m |-> <<1, 1, 0, 0, 0, 1, 1>> \o [i \in 1..46 |-> 1], e |-> -46]

\* the shares sum to 100 when the two quotients have an exact value
SharesOfExactQuotients ==
  (/\ ClicksCounted
   /\ device.metrics.mobile.trafficShare.k = "fin"
   /\ device.metrics.desktop.trafficShare.k = "fin") =>
    Add(device.metrics.mobile.trafficShare, device.metrics.desktop.trafficShare) = Num(100)

\* ---- ROAS cards ----

(* C24: the ROAS card of a device shows "NA" exactly when its roas is the    *)
(* absent value, that is when its spend is <= 0; a device with spend > 0 and *)
(* revenue 0 is shown the number 0.0, not "NA".                               *)
C24_RoasCard ==
  DeviceShown =>
    \A k \in {"mobile", "desktop"} :
      /\ (device.roasCard[k] = NA) <=> (device.metrics[k].roas = Null)
      /\ (device.metrics[k].roas = Null) <=> LeZero(device.metrics[k].spend)
      /\ (Gt(device.metrics[k].spend, Num(0)) /\ device.metrics[k].revenue = Num(0)) =>
           device.roasCard[k] = [kind |-> "fixed", sign |-> 1, tenths |-> 0]

\* desktop spent 4 and earned nothing: its roas is the number 0 and its card
\* reads "NA"; mobile earned 1 for 3 and reads 0.3
ZeroReturnShownAsNA ==
  /\ DeviceShown /\ campaigns = UnevenClicks
  /\ device.metrics.desktop.roas = Num(0)
  /\ device.roasCard.desktop = NA
  /\ device.roasCard.mobile = [kind |-> "fixed", sign |-> 1, tenths |-> 3]

\* what the card does: "NA" for the absent value, for 0 and for NaN
RoasCardOfFalsy ==
  DeviceShown =>
    \A k \in {"mobile", "desktop"} :
      (device.roasCard[k] = NA) <=>
        \/ device.metrics[k].roas \in {Null, Num(0), NaN}

\* ---- the three structures of aggregateCampaignMetrics ----

\* the sum of the metric f over the first i age groups of the map m
RECURSIVE SumOverAges(_, _, _)
SumOverAges(m, f, i) ==
  IF i = 0 THEN Num(0) ELSE Add(SumOverAges(m, f, i - 1), m[i].val[f])

\* the segments whose gender is neither male nor female
Unrecognized ==
  {p \in SegmentPositions : NormalizedGender(SegmentAt(p)) \notin {STR_male, STR_female}}

\* the metric f of the age group in the map of a gender, 0 when it has none
OfGenderAndAge(g, age, f) == MapGet(demo.genderAgeTotals[g], age, createEmptyAgeMetrics)[f]

\* no segment takes anything away: every contribution is a number >= 0
NothingNegative ==
  \A p \in SegmentPositions : \A f \in FiveMetrics :
    Contribution(p, f).k = "fin" /\ Contribution(p, f).n >= 0

AllRecognized ==
  /\ DemoRendered /\ SegmentPositions # {} /\ Unrecognized = {}
  /\ Len(demo.genderAgeTotals.male) >= 2

\* ---- age groups of the gender tables ----

KeysOf(m) == {m[i].key : i \in 1..Len(m)}

\* the position of a canonical age group in AGE_GROUP_ORDER
CanonicalRank(age) == CHOOSE i \in 1..Len(AGE_GROUP_ORDER) : AGE_GROUP_ORDER[i] = age

\* a comes before b in the order "canonical five, then the others by text"
AgePrecedes(a, b) ==
  IF a \in CanonicalAges
  THEN b \notin CanonicalAges \/ CanonicalRank(a) < CanonicalRank(b)
  ELSE b \notin CanonicalAges /\ StringLess(a, b)

RowsInAgeOrder(rows) ==
  \A i, j \in 1..Len(rows) : i < j => AgePrecedes(rows[i].ageGroup, rows[j].ageGroup)

(* C26: every age group of genderAgeTotals.male and .female is a key of      *)
(* ageTotals and so is in the list of buildOrderedAgeGroups; no age group is *)
(* left to be appended as an extra by buildGenderAgeTableData, and the male  *)
(* and female rows are in the order canonical five, then the others by text. *)
C26_GenderAgeKeys ==
  DemoRendered =>
    \A g \in {"male", "female"} :
      /\ KeysOf(demo.genderAgeTotals[g]) \subseteq KeysOf(demo.ageTotals)
      /\ KeysOf(demo.genderAgeTotals[g])
           \subseteq {demo.orderedAgeGroups[i] : i \in 1..Len(demo.orderedAgeGroups)}
      /\ FilterNotIn(MapKeys(demo.genderAgeTotals[g]), demo.orderedAgeGroups,
                     Len(demo.genderAgeTotals[g])) = <<>>
      /\ RowsInAgeOrder(IF g = "male" THEN demo.maleAgeTableData ELSE demo.femaleAgeTableData)

\* the spellings: the male map was filled as Teen, teen, Unknown and its rows
\* read Teen, Unknown, teen; the female rows read 18-24, then " 18-24"
C26_Witness ==
  /\ DemoRendered /\ campaigns = Spellings
  /\ MapKeys(demo.genderAgeTotals.male) = <<AGE_Teen, AGE_teen, STR_Unknown>>
  /\ [i \in 1..Len(demo.maleAgeTableData) |-> demo.maleAgeTableData[i].ageGroup]
       = <<AGE_Teen, STR_Unknown, AGE_teen>>
  /\ [i \in 1..Len(demo.femaleAgeTableData) |-> demo.femaleAgeTableData[i].ageGroup]
       = <<AGE_18_24, AGE_18_24_Spaced>>

\* ---- spend across the demographic view ----

HasSegments(campaign) == Len(SegmentsOf(campaign)) >= 1

\* the payload without the campaigns that have no segment
CampaignsWithSegments == SelectSeq(campaigns, HasSegments)

\* campaign.spend ?? 0 (revenue likewise), summed over the first i campaigns of the list
RECURSIVE SumOfCampaigns(_, _, _)
SumOfCampaigns(list, f, i) ==
  IF i = 0 THEN Num(0) ELSE Add(SumOfCampaigns(list, f, i - 1), Coalesce(list[i][f], Num(0)))

\* a campaign without segments leaves the three structures as they were
NothingFromEmptyCampaigns ==
  LET kept == aggregateCampaignMetrics(CampaignsWithSegments)
  IN  /\ demo.ageTotals = kept.ageTotals
      /\ demo.genderTotals = kept.genderTotals
      /\ demo.genderAgeTotals = kept.genderAgeTotals
      /\ \A i \in 1..Len(campaigns) : ~HasSegments(campaigns[i]) => demo.allocs[i] = <<>>

\* the spend of the age groups together is the spend of the campaigns with segments
SpendConserved ==
  LET total == SumOfCampaigns(CampaignsWithSegments, "spend", Len(CampaignsWithSegments))
  IN  IsFin(total) => SumOverAges(demo.ageTotals, "spend", Len(demo.ageTotals)) = total

NotMixed(campaign) ==
  \A j, l \in 1..Len(SegmentsOf(campaign)) :
    HasPct(SegmentsOf(campaign)[j]) = HasPct(SegmentsOf(campaign)[l])

(* C27: a campaign whose demographic_breakdown is absent or empty adds       *)
(* nothing to ageTotals, genderTotals or genderAgeTotals, and the spend of   *)
(* all the age groups of ageTotals together equals the spend of exactly the  *)
(* campaigns that have at least one segment.                                 *)
C27_SpendConservation ==
  DemoRendered => NothingFromEmptyCampaigns /\ SpendConserved

\* the first half on its own
EmptyCampaignsDropped == DemoRendered => NothingFromEmptyCampaigns

\* the second half for payloads whose campaigns each carry a percentage on
\* all of their segments or on none
ConservedWhenNotMixed ==
  (DemoRendered /\ \A i \in 1..Len(campaigns) : NotMixed(campaigns[i])) => SpendConserved

\* a campaign with spend and no segment is dropped next to one that is counted
SpendOfEmptyCampaignDropped ==
  /\ DemoRendered
  /\ \E i, j \in 1..Len(campaigns) :
       /\ ~HasSegments(campaigns[i]) /\ Coalesce(campaigns[i].spend, Num(0)) = Num(12)
       /\ HasSegments(campaigns[j]) /\ NotMixed(campaigns[j])
  /\ SumOverAges(demo.ageTotals, "spend", Len(demo.ageTotals))
       # SumOfCampaigns(campaigns, "spend", Len(campaigns))
  /\ SpendConserved

\* one segment with a percentage, one without: more spend in the age groups
\* than the campaign had
MoreSpendThanCampaigns ==
  /\ DemoRendered /\ Len(campaigns) = 1 /\ ~NotMixed(campaigns[1])
  /\ campaigns[1].spend = Num(12)
  /\ SumOverAges(demo.ageTotals, "spend", Len(demo.ageTotals)) = Num(18)

====
